---- MODULE Spec2Model ----
(***************************************************************************)
(* Phone-OTP authentication on a managed identity provider:                *)
(*   - the custom-challenge triggers (define / create / verify),           *)
(*   - the auth lambda (register, send-otp, ...),                          *)
(*   - the request authorizer (cookie extraction, JWT validation).         *)
(* Text is modelled as sequences of one-character strings, so that         *)
(* formatting, matching and splitting are computed, never assumed.         *)
(***************************************************************************)
EXTENDS Integers, Sequences, FiniteSets, TLC

(***************************************************************************)
(* Bounds of the model.                                                    *)
(***************************************************************************)
\* Login attempts (InitiateAuth calls) in one behaviour.
MaxAttempts == 2

\* The provider holds at most this many accounts.
MaxAccounts == 1
\* Re-invocations of the create trigger by the provider within one attempt.
MaxRetries == 1
\* Math.random() is drawn as u / RandomDenominator, u in 0..RandomDenominator-1.
RandomDenominator == 2048
\* How many of those draws the login flow enumerates (evenly spread, both ends).
NumDraws == 3
\* Longest run of digits that follows the first character after the prefix of a
\* candidate phone number (the pattern allows 14).
MaxPhoneDigits == 16
\* Clock ticks (of 20 minutes) the authorizer's clock advances in one behaviour.
MaxTicks == 3
\* Authorizer invocations that may be suspended, each at one of its awaits, at once.
NumVerifiers == 2
\* Longest round history the define trigger is applied to on its own.
MaxHistory == 4

(***************************************************************************)
(* Text helpers.                                                           *)
(***************************************************************************)
Digits == <<"0", "1", "2", "3", "4", "5", "6", "7", "8", "9">>

DigitSet == {Digits[i] : i \in 1..10}

\* Number.prototype.toString() of a non-negative integer: decimal, no padding.
RECURSIVE NumberToString(_)
NumberToString(n) ==
    IF n < 10 THEN <<Digits[n + 1]>>
    ELSE NumberToString(n \div 10) \o <<Digits[(n % 10) + 1]>>

\* ^[0-9]{6}$ with a non-zero leading digit, i.e. a rendering of 100000..999999.
IsSixDigitCode(s) ==
    /\ Len(s) = 6
    /\ \A i \in 1..6 : s[i] \in DigitSet
    /\ s[1] # "0"

(***************************************************************************)
(* create-auth-challenge: code generation.                                 *)
(***************************************************************************)
RandomDraws ==
    {(i * (RandomDenominator - 1)) \div (NumDraws - 1) : i \in 0..(NumDraws - 1)}

\* Mutant: the offset 100000 is forgotten (Math.floor(Math.random() * 900000)).
generateOTP_NoOffset(u) ==
    NumberToString((u * 900000) \div RandomDenominator)

\* Math.floor(100000 + Math.random() * 900000).toString(), Math.random() = u/D.
generateOTP(u) ==
    NumberToString((100000 * RandomDenominator + u * 900000) \div RandomDenominator)

\* Mutant: a fresh code is drawn in every round.
ChooseOtp_AlwaysFresh(sess, u) == generateOTP(u)

\* The code of a create invocation: fresh on an empty round history, otherwise
\* the metadata of the most recent round (or fresh when that is empty).
ChooseOtp(sess, u) ==
    IF Len(sess) = 0 THEN generateOTP(u)
    ELSE LET previousChallenge == sess[Len(sess)]
         IN  IF previousChallenge.challengeMetadata # <<>>
             THEN previousChallenge.challengeMetadata
             ELSE generateOTP(u)

\* request.userAttributes.phone_number of the subject of the attempt.
phone_number == <<"+", "1", "2", "3", "4", "5">>

\* Mutant: the message is sent only when the code is new.
SnsPublishes_OnlyFresh(sess, otp) ==
    IF Len(sess) = 0 THEN <<[PhoneNumber |-> phone_number, Code |-> otp]>> ELSE <<>>

\* The sns.publish calls one create invocation makes.
SnsPublishes(sess, otp) ==
    <<[PhoneNumber |-> phone_number, Code |-> otp]>>

\* Mutant: the handler responds before the delivery call has settled.
StatusAtPublish_NoAwait == "returned"

\* The handler is suspended on `await sns.publish(...).promise()`.
StatusAtPublish == "running"

\* Mutant: the catch block rethrows.
CreateCompletion_Rethrow(delivery) ==
    IF delivery = "failed" THEN "threw" ELSE "returned"

\* How the handler ends once the delivery call settled: the try block runs
\* through, or the catch block logs and falls through to `return event`.
CreateCompletion(delivery) == "returned"

(***************************************************************************)
(* define-auth-challenge.                                                  *)
(***************************************************************************)
\* The response object the provider hands to the trigger.
EmptyResponse ==
    [challengeName |-> "none", issueTokens |-> FALSE, failAuthentication |-> FALSE]

\* Mutant: the retry limit is off by one (session.length <= 3).
DefineAuthChallenge_OffByOne(sess) ==
    IF Len(sess) = 0
    THEN [EmptyResponse EXCEPT !.challengeName = "CUSTOM_CHALLENGE"]
    ELSE IF sess[Len(sess)].challengeResult = TRUE
    THEN [EmptyResponse EXCEPT !.issueTokens = TRUE]
    ELSE IF Len(sess) <= 3
    THEN [EmptyResponse EXCEPT !.challengeName = "CUSTOM_CHALLENGE"]
    ELSE [EmptyResponse EXCEPT !.failAuthentication = TRUE]

\* Mutant: the attempt limit is tested before the result of the last round.
DefineAuthChallenge_LimitFirst(sess) ==
    IF Len(sess) = 0
    THEN [EmptyResponse EXCEPT !.challengeName = "CUSTOM_CHALLENGE"]
    ELSE IF Len(sess) >= 3
    THEN [EmptyResponse EXCEPT !.failAuthentication = TRUE]
    ELSE IF sess[Len(sess)].challengeResult = TRUE
    THEN [EmptyResponse EXCEPT !.issueTokens = TRUE]
    ELSE [EmptyResponse EXCEPT !.challengeName = "CUSTOM_CHALLENGE"]

\* Mutant: the last branch leaves issueTokens set while it fails the attempt.
DefineAuthChallenge_BothFlags(sess) ==
    IF Len(sess) = 0
    THEN [EmptyResponse EXCEPT !.challengeName = "CUSTOM_CHALLENGE"]
    ELSE IF sess[Len(sess)].challengeResult = TRUE
    THEN [EmptyResponse EXCEPT !.issueTokens = TRUE]
    ELSE IF Len(sess) < 3
    THEN [EmptyResponse EXCEPT !.challengeName = "CUSTOM_CHALLENGE"]
    ELSE [EmptyResponse EXCEPT !.issueTokens = TRUE, !.failAuthentication = TRUE]

DefineAuthChallenge(sess) ==
    IF Len(sess) = 0
    THEN [EmptyResponse EXCEPT !.challengeName = "CUSTOM_CHALLENGE"]
    ELSE IF sess[Len(sess)].challengeResult = TRUE
    THEN [EmptyResponse EXCEPT !.issueTokens = TRUE]
    ELSE IF Len(sess) < 3
    THEN [EmptyResponse EXCEPT !.challengeName = "CUSTOM_CHALLENGE"]
    ELSE [EmptyResponse EXCEPT !.failAuthentication = TRUE]

(***************************************************************************)
(* verify-auth-challenge.                                                  *)
(***************************************************************************)
\* The code points String.prototype.trim() strips: the WhiteSpace and
\* LineTerminator productions of ECMAScript.  Those that a string literal here
\* cannot hold are written by their code point names.
WhiteSpace ==
    {" ", "\t", "\n", "\r", "\f", "U+000B", "U+00A0", "U+1680",
     "U+2000", "U+2001", "U+2002", "U+2003", "U+2004", "U+2005", "U+2006",
     "U+2007", "U+2008", "U+2009", "U+200A", "U+2028", "U+2029", "U+202F",
     "U+205F", "U+3000", "U+FEFF"}

RECURSIVE TrimLeft(_)
TrimLeft(s) ==
    IF Len(s) > 0 /\ s[1] \in WhiteSpace THEN TrimLeft(Tail(s)) ELSE s

RECURSIVE TrimRight(_)
TrimRight(s) ==
    IF Len(s) > 0 /\ s[Len(s)] \in WhiteSpace
    THEN TrimRight(SubSeq(s, 1, Len(s) - 1))
    ELSE s

Trim(s) == TrimRight(TrimLeft(s))

\* Mutant: the answer is trimmed before it is compared.
VerifyAnswer_Trimmed(userAnswer, expectedAnswer) ==
    Trim(userAnswer) = expectedAnswer

\* userAnswer === expectedAnswer
VerifyAnswer(userAnswer, expectedAnswer) ==
    userAnswer = expectedAnswer

\* The answers a client submits: the stored code, a six-digit code that is
\* never issued, the stored code with a leading blank, and its first five digits.
NeverIssued == <<"0", "0", "0", "0", "0", "0">>

Answers(stored) ==
    {stored, NeverIssued, <<" ">> \o stored, <<"\t">> \o stored \o <<"\r", "\n">>,
     SubSeq(stored, 1, Len(stored) - 1)}

(***************************************************************************)
(* Auth lambda: register and send-otp.                                     *)
(***************************************************************************)
\* A field of a parsed JSON body: absent (undefined) or a string.
Absent == [present |-> FALSE, text |-> <<>>]

Str(s) == [present |-> TRUE, text |-> s]

\* Mutant: only an absent value is refused (value == null); "" passes.
Falsy_NullOnly(v) == ~v.present

\* !value for an absent field or a string: undefined and "" are falsy.
Falsy(v) == ~v.present \/ v.text = <<>>

\* Mutant: the pattern has lost its end anchor: /^\+[1-9]\d{1,14}/.
phoneRegexTest_NoEndAnchor(s) ==
    /\ Len(s) >= 3
    /\ s[1] = "+"
    /\ s[2] \in DigitSet \ {"0"}
    /\ s[3] \in DigitSet

\* /^\+[1-9]\d{1,14}$/.test(s)
phoneRegexTest(s) ==
    /\ Len(s) >= 3
    /\ Len(s) <= 16
    /\ s[1] = "+"
    /\ s[2] \in DigitSet \ {"0"}
    /\ \A i \in 3..Len(s) : s[i] \in DigitSet

\* An HTTP response of the auth lambda: status code and the fields of its body
\* ("none" for a field the body does not have).
\* The user record of a body that has none.
NoUser ==
    [userId |-> "", phoneNumber |-> "", email |-> "", name |-> "",
     emailVerified |-> FALSE, phoneVerified |-> FALSE, role |-> "", company |-> ""]

\* setCookie lists the values of the response's Set-Cookie header (none for a
\* response without that header); success and user are those of the body.
HttpResponse_SuccessEnvelope(code, err, msg, sess) ==
    [statusCode |-> code, error |-> err, message |-> msg, session |-> sess,
     setCookie |-> <<>>, success |-> (code = 200), user |-> NoUser]

HttpResponse(code, err, msg, sess) ==
    [statusCode |-> code, error |-> err, message |-> msg, session |-> sess,
     setCookie |-> <<>>, success |-> FALSE, user |-> NoUser]

NoHttpResponse == HttpResponse(0, "none", "none", FALSE)

\* The outcome of one call to the identity provider: it returns (`ok`), or it
\* throws an error with a name and a message of the provider's own wording.
ProviderOk == [name |-> "ok", message |-> ""]

ProviderError(name, message) == [name |-> name, message |-> message]

NoProviderError == [name |-> "none", message |-> ""]

ProviderErrorNames ==
    {"UserNotFoundException", "UsernameExistsException", "NotAuthorizedException",
     "CodeMismatchException", "InternalErrorException"}

RawMessages == {"provider message 1", "provider message 2"}

ProviderOutcomes ==
    {ProviderOk}
    \cup {ProviderError(n, "provider message 1") :
             n \in ProviderErrorNames \ {"CodeMismatchException"}}

\* sendOtp(body): the response and the provider commands sent, given the
\* outcome the provider would give to InitiateAuth.
sendOtp_UniformMapping(body, initiate) ==
    IF Falsy(body.phoneNumber)
    THEN [response |-> HttpResponse(400, "Phone number is required", "none", FALSE),
          calls |-> <<>>]
    ELSE IF ~phoneRegexTest(body.phoneNumber.text)
    THEN [response |-> HttpResponse(400, "Invalid phone number format", "none", FALSE),
          calls |-> <<>>]
    ELSE IF initiate.name = "ok"
    THEN [response |-> HttpResponse(200, "none", "OTP sent successfully", TRUE),
          calls |-> <<"InitiateAuth">>]
    ELSE IF initiate.name = "UserNotFoundException"
    THEN [response |-> HttpResponse(404, "User not found", "none", FALSE),
          calls |-> <<"InitiateAuth">>]
    ELSE IF initiate.name \in {"NotAuthorizedException", "CodeMismatchException"}
    THEN [response |-> HttpResponse(401, "Failed to send OTP", "none", FALSE),
          calls |-> <<"InitiateAuth">>]
    ELSE [response |-> HttpResponse(500, "Failed to send OTP", initiate.message, FALSE),
          calls |-> <<"InitiateAuth">>]

sendOtp(body, initiate) ==
    IF Falsy(body.phoneNumber)
    THEN [response |-> HttpResponse(400, "Phone number is required", "none", FALSE),
          calls |-> <<>>]
    ELSE IF ~phoneRegexTest(body.phoneNumber.text)
    THEN [response |-> HttpResponse(400, "Invalid phone number format", "none", FALSE),
          calls |-> <<>>]
    ELSE IF initiate.name = "ok"
    THEN [response |-> HttpResponse(200, "none", "OTP sent successfully", TRUE),
          calls |-> <<"InitiateAuth">>]
    ELSE IF initiate.name = "UserNotFoundException"
    THEN [response |-> HttpResponse(404, "User not found", "none", FALSE),
          calls |-> <<"InitiateAuth">>]
    ELSE [response |-> HttpResponse(500, "Failed to send OTP", initiate.message, FALSE),
          calls |-> <<"InitiateAuth">>]

\* registerUser(body): SignUp, then InitiateAuth, inside one try block.
registerUser_LocalConflict(body, signUp, initiate) ==
    IF Falsy(body.phoneNumber)
    THEN [response |-> HttpResponse(400, "Phone number is required", "none", FALSE),
          calls |-> <<>>]
    ELSE IF ~phoneRegexTest(body.phoneNumber.text)
    THEN [response |-> HttpResponse(400, "Invalid phone number format", "none", FALSE),
          calls |-> <<>>]
    ELSE IF signUp.name = "UsernameExistsException"
    THEN [response |-> HttpResponse(409, "User with this phone number already exists",
                                    "none", FALSE),
          calls |-> <<>>]
    ELSE IF signUp.name # "ok"
    THEN [response |->
             IF signUp.name = "UsernameExistsException"
             THEN HttpResponse(409, "User with this phone number already exists",
                               "none", FALSE)
             ELSE HttpResponse(500, "Failed to register user", signUp.message, FALSE),
          calls |-> <<"SignUp">>]
    ELSE IF initiate.name # "ok"
    THEN [response |->
             IF initiate.name = "UsernameExistsException"
             THEN HttpResponse(409, "User with this phone number already exists",
                               "none", FALSE)
             ELSE HttpResponse(500, "Failed to register user", initiate.message, FALSE),
          calls |-> <<"SignUp", "InitiateAuth">>]
    ELSE [response |-> HttpResponse(200, "none", "Registration initiated", TRUE),
          calls |-> <<"SignUp", "InitiateAuth">>]

registerUser(body, signUp, initiate) ==
    IF Falsy(body.phoneNumber)
    THEN [response |-> HttpResponse(400, "Phone number is required", "none", FALSE),
          calls |-> <<>>]
    ELSE IF ~phoneRegexTest(body.phoneNumber.text)
    THEN [response |-> HttpResponse(400, "Invalid phone number format", "none", FALSE),
          calls |-> <<>>]
    ELSE IF signUp.name # "ok"
    THEN [response |->
             IF signUp.name = "UsernameExistsException"
             THEN HttpResponse(409, "User with this phone number already exists",
                               "none", FALSE)
             ELSE HttpResponse(500, "Failed to register user", signUp.message, FALSE),
          calls |-> <<"SignUp">>]
    ELSE IF initiate.name # "ok"
    THEN [response |->
             IF initiate.name = "UsernameExistsException"
             THEN HttpResponse(409, "User with this phone number already exists",
                               "none", FALSE)
             ELSE HttpResponse(500, "Failed to register user", initiate.message, FALSE),
          calls |-> <<"SignUp", "InitiateAuth">>]
    ELSE [response |-> HttpResponse(200, "none", "Registration initiated", TRUE),
          calls |-> <<"SignUp", "InitiateAuth">>]

\* Candidate phone numbers: a prefix, a first character, a run of digits and a
\* tail, so that both ends of the allowed lengths and every position of the
\* pattern are exercised.
RECURSIVE Repeat(_, _)
Repeat(c, n) == IF n = 0 THEN <<>> ELSE <<c>> \o Repeat(c, n - 1)

PhoneTexts ==
    {prefix \o first \o Repeat(d, n) \o tail :
        prefix \in {<<>>, <<"+">>, <<" ", "+">>},
        first \in {<<>>, <<"1">>, <<"0">>},
        d \in {"2"},
        n \in {0, 1, 14, 15} \cup {MaxPhoneDigits},
        tail \in {<<>>, <<"x">>, <<" ">>}}

PhoneFields == {Absent} \cup {Str(s) : s \in PhoneTexts}

(***************************************************************************)
(* Authorizer: cookie extraction.                                          *)
(***************************************************************************)
\* Position of the first occurrence of character c in s, 0 when there is none.
IndexOf(s, c) ==
    IF \E i \in 1..Len(s) : s[i] = c
    THEN CHOOSE i \in 1..Len(s) : s[i] = c /\ \A j \in 1..(i - 1) : s[j] # c
    ELSE 0

\* String.prototype.split(sep) for a one-character separator.
RECURSIVE Split(_, _)
Split(s, sep) ==
    LET i == IndexOf(s, sep)
    IN  IF i = 0 THEN <<s>>
        ELSE <<SubSeq(s, 1, i - 1)>> \o Split(SubSeq(s, i + 1, Len(s)), sep)

\* String.prototype.startsWith(prefix)
StartsWith(s, prefix) ==
    /\ Len(s) >= Len(prefix)
    /\ SubSeq(s, 1, Len(prefix)) = prefix

\* Array.prototype.map(c => c.trim())
MapTrim(parts) == [i \in 1..Len(parts) |-> Trim(parts[i])]

\* Array.prototype.find(c => c.startsWith(prefix)): the index of the first
\* match, 0 when there is none.
FindStartsWith(parts, prefix) ==
    IF \E i \in 1..Len(parts) : StartsWith(parts[i], prefix)
    THEN CHOOSE i \in 1..Len(parts) :
            /\ StartsWith(parts[i], prefix)
            /\ \A j \in 1..(i - 1) : ~StartsWith(parts[j], prefix)
    ELSE 0

idTokenPrefix == <<"i", "d", "T", "o", "k", "e", "n", "=">>

refreshTokenPrefix ==
    <<"r", "e", "f", "r", "e", "s", "h", "T", "o", "k", "e", "n", "=">>

\* a || b for two optional strings.
OrElse(a, b) == IF Falsy(a) THEN b ELSE a

\* The token of an `Authorization: Bearer <token>` header, absent without one.
BearerPrefix == <<"B", "e", "a", "r", "e", "r", " ">>

BearerToken(headers) ==
    IF headers.present /\ headers.Authorization.present
          /\ StartsWith(headers.Authorization.text, BearerPrefix)
    THEN Str(SubSeq(headers.Authorization.text, Len(BearerPrefix) + 1,
                    Len(headers.Authorization.text)))
    ELSE Absent

\* Mutant: a bearer header is read first, the cookie only without one.
extractTokenFromCookies_BearerFirst(headers) ==
    IF BearerToken(headers).present THEN BearerToken(headers)
    ELSE IF ~headers.present THEN Absent
    ELSE LET cookieHeader == OrElse(headers.Cookie, OrElse(headers.cookie, Str(<<>>)))
         IN  IF Falsy(cookieHeader) THEN Absent
             ELSE LET cookies == MapTrim(Split(cookieHeader.text, ";"))
                      k == FindStartsWith(cookies, idTokenPrefix)
                  IN  IF k = 0 THEN Absent
                      ELSE Str(Split(cookies[k], "=")[2])

\* Mutant: any cookie whose name ends in Token is taken (refreshToken too).
extractTokenFromCookies_AnyToken(headers) ==
    IF ~headers.present THEN Absent
    ELSE LET cookieHeader == OrElse(headers.Cookie, OrElse(headers.cookie, Str(<<>>)))
         IN  IF Falsy(cookieHeader) THEN Absent
             ELSE LET cookies == MapTrim(Split(cookieHeader.text, ";"))
                      k == IF FindStartsWith(cookies, idTokenPrefix) # 0
                           THEN FindStartsWith(cookies, idTokenPrefix)
                           ELSE FindStartsWith(cookies, refreshTokenPrefix)
                  IN  IF k = 0 THEN Absent
                      ELSE Str(Split(cookies[k], "=")[2])

\* extractTokenFromCookies(headers): the value of the first idToken cookie, up
\* to its next `=`; absent (null) when there is no such cookie.
extractTokenFromCookies(headers) ==
    IF ~headers.present THEN Absent
    ELSE LET cookieHeader == OrElse(headers.Cookie, OrElse(headers.cookie, Str(<<>>)))
         IN  IF Falsy(cookieHeader) THEN Absent
             ELSE LET cookies == MapTrim(Split(cookieHeader.text, ";"))
                      k == FindStartsWith(cookies, idTokenPrefix)
                  IN  IF k = 0 THEN Absent
                      ELSE Str(Split(cookies[k], "=")[2])

(***************************************************************************)
(* Authorizer: tokens, key sets and JWT validation.                        *)
(***************************************************************************)
\* Date.now() at clock tick k, in milliseconds.
EpochMs == 1000 * 1000000

TickMs == 20 * 60 * 1000

NowMs(k) == EpochMs + k * TickMs

JWKS_CACHE_DURATION == 3600000

\* `https://cognito-idp.${COGNITO_REGION}.amazonaws.com/${COGNITO_USER_POOL_ID}`
ExpectedIssuer == "https://cognito-idp.eu-west-1.amazonaws.com/pool-A"

OtherIssuer == "https://cognito-idp.eu-west-1.amazonaws.com/pool-B"

\* The provider's signing keys: key id and key material.
Key1 == [kid |-> "k1", material |-> "m1"]

Key2 == [kid |-> "k2", material |-> "m2"]

\* A token well inside its validity, and one that expires at the second tick.
\* A claim the token does not carry is the empty text: `claim || x` treats an
\* absent claim and an empty one alike.
FarExp == (EpochMs \div 1000) + 1000000

SoonExp == (EpochMs + 2 * TickMs) \div 1000

BaseToken ==
    [wellFormed |-> TRUE, kid |-> "k1", alg |-> "RS256",
     sig |-> [alg |-> "RS256", key |-> "m1"],
     iss |-> ExpectedIssuer, exp |-> FarExp,
     sub |-> "user-1", phone_number |-> "+12345678900", email |-> "",
     name |-> "Ann", role |-> "", company |-> "",
     email_verified |-> FALSE, phone_number_verified |-> TRUE]

\* The identity assertions a request can carry, by the one-character stand-in
\* that spells them in a header (a JWT holds no `;`, `=` or blank).
TokenAtoms ==
    {"tGood", "tShort", "tWrongIss", "tForged", "tNone", "tHmac",
     "tUnknownKid", "tNoKid", "tRotated", "tGarbage", "tBare"}

TokenOf(atom) ==
    CASE atom = "tGood"       -> [BaseToken EXCEPT !.role = "admin", !.company = "Acme"]
      [] atom = "tShort"      -> [BaseToken EXCEPT !.exp = SoonExp]
      [] atom = "tWrongIss"   -> [BaseToken EXCEPT !.iss = OtherIssuer]
      [] atom = "tForged"     -> [BaseToken EXCEPT !.sig = [alg |-> "RS256", key |-> "mX"]]
      [] atom = "tNone"       -> [BaseToken EXCEPT !.alg = "none",
                                                   !.sig = [alg |-> "none", key |-> ""]]
      [] atom = "tHmac"       -> [BaseToken EXCEPT !.alg = "HS256",
                                                   !.sig = [alg |-> "HS256", key |-> "m1"]]
      [] atom = "tUnknownKid" -> [BaseToken EXCEPT !.kid = "k9",
                                                   !.sig = [alg |-> "RS256", key |-> "m9"]]
      [] atom = "tNoKid"      -> [BaseToken EXCEPT !.kid = ""]
      [] atom = "tRotated"    -> [BaseToken EXCEPT !.kid = "k2",
                                                   !.sig = [alg |-> "RS256", key |-> "m2"]]
      [] atom = "tBare"       -> [BaseToken EXCEPT !.phone_number = "", !.name = ""]
      [] OTHER                -> [BaseToken EXCEPT !.wellFormed = FALSE]

\* The characters of a base64url segment: a JWT is three such segments
\* joined by dots (the last one, the signature, may be empty).
Base64Url ==
    {"A", "B", "C", "D", "E", "F", "G", "H", "I", "J", "K", "L", "M",
     "N", "O", "P", "Q", "R", "S", "T", "U", "V", "W", "X", "Y", "Z",
     "a", "b", "c", "d", "e", "f", "g", "h", "i", "j", "k", "l", "m",
     "n", "o", "p", "q", "r", "s", "t", "u", "v", "w", "x", "y", "z",
     "0", "1", "2", "3", "4", "5", "6", "7", "8", "9", "-", "_"}

\* jwt.decode(token, { complete: true }): the token's record, not well-formed
\* (null) for text that is no JWT.  Characters of a base64url segment after
\* a JWT lengthen its signature: header and payload decode as before and the
\* signature is no longer one any key made.  Any other character after it,
\* or anything before it, leaves no JWT.
jwtDecode(token) ==
    IF Len(token) >= 1 /\ token[1] \in TokenAtoms
          /\ \A i \in 2..Len(token) : token[i] \in Base64Url
    THEN IF Len(token) = 1
         THEN TokenOf(token[1])
         ELSE [TokenOf(token[1]) EXCEPT !.sig = [alg |-> "lengthened", key |-> ""]]
    ELSE [BaseToken EXCEPT !.wellFormed = FALSE]

\* jws signature verification of a decoded token under algorithm alg and key.
SignatureValid(tok, alg, key) ==
    /\ alg # "none"
    /\ tok.sig = [alg |-> alg, key |-> key]

\* Mutant: the expiry claim is not checked (ignoreExpiration).
jwtVerify_IgnoreExpiration(tok, pem, algorithms, issuer, nowMs) ==
    IF ~tok.wellFormed THEN "jwt malformed"
    ELSE IF tok.sig.alg = "none" THEN "jwt signature is required"
    ELSE IF tok.alg \notin algorithms THEN "invalid algorithm"
    ELSE IF ~SignatureValid(tok, tok.alg, pem) THEN "invalid signature"
    ELSE IF tok.iss # issuer THEN "jwt issuer invalid"
    ELSE "ok"

\* Mutant: the algorithms option is not passed, so the algorithm the token
\* names is the one its signature is verified under.
jwtVerify_AnyAlgorithm(tok, pem, algorithms, issuer, nowMs) ==
    IF ~tok.wellFormed THEN "jwt malformed"
    ELSE IF tok.sig.alg = "none" /\ tok.alg # "none" THEN "jwt signature is required"
    ELSE IF tok.alg # "none" /\ ~SignatureValid(tok, tok.alg, pem) THEN "invalid signature"
    ELSE IF (nowMs \div 1000) >= tok.exp THEN "jwt expired"
    ELSE IF tok.iss # issuer THEN "jwt issuer invalid"
    ELSE "ok"

\* Mutant: the issuer option is not passed.
jwtVerify_NoIssuer(tok, pem, algorithms, issuer, nowMs) ==
    IF ~tok.wellFormed THEN "jwt malformed"
    ELSE IF tok.sig.alg = "none" THEN "jwt signature is required"
    ELSE IF tok.alg \notin algorithms THEN "invalid algorithm"
    ELSE IF ~SignatureValid(tok, tok.alg, pem) THEN "invalid signature"
    ELSE IF (nowMs \div 1000) >= tok.exp THEN "jwt expired"
    ELSE "ok"

\* jwt.verify(token, pem, { algorithms, issuer }) of jsonwebtoken: "ok" or the
\* message of the error it throws.
jwtVerify(tok, pem, algorithms, issuer, nowMs) ==
    IF ~tok.wellFormed THEN "jwt malformed"
    ELSE IF tok.sig.alg = "none" THEN "jwt signature is required"
    ELSE IF tok.alg \notin algorithms THEN "invalid algorithm"
    ELSE IF ~SignatureValid(tok, tok.alg, pem) THEN "invalid signature"
    ELSE IF (nowMs \div 1000) >= tok.exp THEN "jwt expired"
    ELSE IF tok.iss # issuer THEN "jwt issuer invalid"
    ELSE "ok"

\* The JWKS cache slot: jwksCache (null or a key set) and jwksCacheTime.
EmptyCache == [present |-> FALSE, keys |-> {}, time |-> 0]

\* Mutant: a cached key set whose age equals the TTL is still served.
fetchJwksServesCache_AtTtl(cache, nowMs) ==
    cache.present /\ (nowMs - cache.time) <= JWKS_CACHE_DURATION

\* fetchJwks up to its suspension: whether it returns the cached key set.
fetchJwksServesCache(cache, nowMs) ==
    cache.present /\ (nowMs - cache.time) < JWKS_CACHE_DURATION

\* Mutant: only the key set is assigned on resumption; the timestamp in the
\* slot stays the one an earlier fetch wrote.
fetchJwksStore_KeySetOnly(cache, data, startMs) ==
    [cache EXCEPT !.present = TRUE, !.keys = data]

\* fetchJwks from its resumption: jwksCache = response.data and
\* jwksCacheTime = now, the `now` read before the suspension.
fetchJwksStore(cache, data, startMs) ==
    [cache EXCEPT !.present = TRUE, !.keys = data, !.time = startMs]

\* fetchJwks when the HTTP fetch answered with `data`: the slot is assigned
\* and the fetched key set returned.
fetchJwksResumed(cache, data, startMs) ==
    [threw |-> FALSE, fetched |-> TRUE, keys |-> data,
     cache |-> fetchJwksStore(cache, data, startMs)]

\* Mutant: when the fetch fails, a key set left in the slot is used.
fetchJwksRejected_StaleFallback(cache) ==
    [threw |-> ~cache.present, fetched |-> TRUE, keys |-> cache.keys, cache |-> cache]

\* fetchJwks when the HTTP fetch failed: it has no catch, so it rejects and
\* the slot is left alone.
fetchJwksRejected(cache) ==
    [threw |-> TRUE, fetched |-> TRUE, keys |-> {}, cache |-> cache]

\* fetchJwks() run without interruption: the key set to use and the cache
\* slot afterwards; `threw` when the HTTP fetch failed.
fetchJwks(cache, nowMs, fetchOutcome, providerKeySet) ==
    IF fetchJwksServesCache(cache, nowMs)
    THEN [threw |-> FALSE, fetched |-> FALSE, keys |-> cache.keys, cache |-> cache]
    ELSE IF fetchOutcome # "ok"
    THEN fetchJwksRejected(cache)
    ELSE fetchJwksResumed(cache, providerKeySet, nowMs)

\* jwks.keys.find(key => key.kid === kid), as the set of matches (key ids are
\* unique within a key set).
FindJwk(keys, kid) == {key \in keys : key.kid = kid}

\* validateJwt(token) after the key set was obtained: "ok" or the message of
\* the error thrown.
validateJwt(token, keys, nowMs) ==
    LET decoded == jwtDecode(token)
    IN  IF ~decoded.wellFormed THEN "Invalid token format"
        ELSE IF decoded.kid = "" THEN "No kid found in token header"
        ELSE IF FindJwk(keys, decoded.kid) = {} THEN "Public key not found in JWKS"
        ELSE LET jwk == CHOOSE key \in FindJwk(keys, decoded.kid) : TRUE
             IN  jwtVerify(decoded, jwk.material, {"RS256"}, ExpectedIssuer, nowMs)

\* Mutant: the role has no default (decoded['custom:role'] || '').
PolicyContext_NoRoleDefault(decoded) ==
    [userId      |-> decoded.sub,
     phoneNumber |-> decoded.phone_number,
     email       |-> decoded.email,
     name        |-> decoded.name,
     role        |-> decoded.role,
     company     |-> decoded.company]

\* The context of an allow policy: generatePolicy applied to the userContext
\* the handler builds from the claims.
PolicyContext(decoded) ==
    [userId      |-> decoded.sub,
     phoneNumber |-> decoded.phone_number,
     email       |-> decoded.email,
     name        |-> decoded.name,
     role        |-> IF decoded.role = "" THEN "user" ELSE decoded.role,
     company     |-> decoded.company]

NoContext ==
    [userId |-> "", phoneNumber |-> "", email |-> "", name |-> "", role |-> "",
     company |-> ""]

\* Cookie headers of requests: one cookie, or two cookies joined by `;` with
\* or without a blank.
CookieSegments ==
    {idTokenPrefix \o <<a>> : a \in TokenAtoms}
    \cup {idTokenPrefix,
          refreshTokenPrefix \o <<"rT">>,
          <<"x">> \o idTokenPrefix \o <<"tGood">>,
          <<"i", "d", "T", "o", "k", "e", "n">>,
          idTokenPrefix \o <<"tGood", "=", "x">>,
          idTokenPrefix \o <<"tGood", "A">>,
          idTokenPrefix \o <<"tGood", ",">>,
          <<" ">> \o idTokenPrefix \o <<"tGood">>,
          <<"\t">> \o idTokenPrefix \o <<"tGood">> \o <<"\r", "\n">>,
          <<"t", "h", "e", "m", "e", "=", "d", "a", "r", "k", ";", "\t">>
             \o idTokenPrefix \o <<"tGood">>,
          <<"U+00A0">> \o idTokenPrefix \o <<"tGood", "U+2028">>,
          refreshTokenPrefix \o <<"tGood">>}

PairedSegments ==
    {idTokenPrefix \o <<"tGood">>,
     idTokenPrefix \o <<"tForged">>,
     idTokenPrefix,
     refreshTokenPrefix \o <<"rT">>}

CookieTexts ==
    CookieSegments
    \cup {a \o sep \o b : a \in PairedSegments, b \in PairedSegments,
                          sep \in {<<";">>, <<";", " ">>}}

NoHeaders ==
    [present |-> FALSE, Cookie |-> Absent, cookie |-> Absent, Authorization |-> Absent]

AuthzRequests ==
    {NoHeaders, [NoHeaders EXCEPT !.present = TRUE]}
    \cup {[NoHeaders EXCEPT !.present = TRUE, !.Cookie = Str(c)] : c \in CookieTexts}
    \cup {[NoHeaders EXCEPT !.present = TRUE, !.cookie = Str(c)] : c \in PairedSegments}
    \cup {[NoHeaders EXCEPT !.present = TRUE, !.Cookie = Str(<<>>), !.cookie = Str(c)] :
             c \in PairedSegments}
    \cup {[NoHeaders EXCEPT !.present = TRUE,
                            !.Authorization = Str(<<"B", "e", "a", "r", "e", "r", " ", a>>)] :
             a \in {"tGood", "tForged"}}
    \cup {[NoHeaders EXCEPT !.present = TRUE,
                            !.Authorization = Str(<<"B", "e", "a", "r", "e", "r", " ", "tForged">>),
                            !.Cookie = Str(idTokenPrefix \o <<"tGood">>)]}

\* extractTokenFromCookies over the requests of the model, computed once.
\* The cookie header a browser sends when it holds both cookies with the
\* empty values logout renders, in either order.
ClearedCookies ==
    {idTokenPrefix \o <<";", " ">> \o refreshTokenPrefix,
     refreshTokenPrefix \o <<";", " ">> \o idTokenPrefix}

\* Requests with cleared cookies or with the cookies of a live session, with
\* and without a bearer token beside them, and the same without cookies.
ClearedRequests ==
    {[NoHeaders EXCEPT !.present = TRUE, !.Cookie = c, !.Authorization = a] :
        c \in {Str(h) : h \in ClearedCookies}
               \cup {Absent,
                     Str(idTokenPrefix \o <<"tGood", ";", " ">> \o refreshTokenPrefix
                            \o <<"rT">>)},
        a \in {Absent, Str(<<"B", "e", "a", "r", "e", "r", " ", "tGood">>)}}

ExtractedToken ==
    [headers \in AuthzRequests \cup ClearedRequests |-> extractTokenFromCookies(headers)]

\* Mutant: the catch block rethrows the error it caught.
CatchBlock_Rethrow(message) == message

\* The catch block of the handler: whatever the message of the error caught,
\* the error thrown to the gateway is `Unauthorized`.
CatchBlock(message) == "Unauthorized"

\* The authorizer's handler: its outcome (an Allow policy, or the message of
\* the error thrown to the gateway), what it logged, and the cache slot it
\* leaves.
\* The handler's catch: Unauthorized, whatever was thrown.
Denied(reason, cache, fetches) ==
    [outcome |-> CatchBlock(reason), principalId |-> "", context |-> NoContext,
     logged |-> reason, cache |-> cache, fetches |-> fetches]

\* validateJwt from the continuation of `await fetchJwks()` on: the rejection
\* of fetchJwks rethrown, or the remaining checks with the clock as it is
\* when the continuation runs.
validateJwtResumed(token, jwks, nowMs) ==
    IF jwks.threw THEN "JWKS fetch failed" ELSE validateJwt(token.text, jwks.keys, nowMs)

\* The handler from the continuation of `await validateJwt(token)` on: the
\* policy, or the catch block.
handlerResumed(headers, verdict, cache, fetches) ==
    LET token == ExtractedToken[headers]
    IN  IF verdict # "ok" THEN Denied(verdict, cache, fetches)
        ELSE [outcome     |-> "Allow",
              principalId |-> jwtDecode(token.text).sub,
              context     |-> PolicyContext(jwtDecode(token.text)),
              logged      |-> "Token validated successfully",
              cache       |-> cache,
              fetches     |-> fetches]

\* The handler from the return of fetchJwks on, when nothing else runs
\* between its two continuations.
handlerAfterFetch(headers, jwks, nowMs) ==
    handlerResumed(headers, validateJwtResumed(ExtractedToken[headers], jwks, nowMs),
                   jwks.cache, IF jwks.fetched THEN 1 ELSE 0)

\* The handler when nothing else runs between its call and its result.
authorizerHandler(headers, cache, nowMs, fetchOutcome, providerKeySet) ==
    IF Falsy(ExtractedToken[headers])
    THEN Denied("No authentication token provided", cache, 0)
    ELSE handlerAfterFetch(headers,
                           fetchJwks(cache, nowMs, fetchOutcome, providerKeySet),
                           nowMs)

(***************************************************************************)
(* State.                                                                  *)
(***************************************************************************)
VARIABLES
    pc,                 \* where the provider is in the custom-auth flow
    attempts,           \* login attempts started so far
    session,            \* request.session: the completed rounds of the attempt
    response,           \* the last response of the define trigger
    privateOtp,         \* privateChallengeParameters.otp of the open challenge
    challengeMetadata,  \* challengeMetadata of the open challenge
    creations,          \* the create invocations of the attempt, in order
    challengesIssued,   \* challenges the define trigger issued in the attempt
    lastAnswer,         \* request.challengeAnswer of the last verify call
    answerCorrect       \* response.answerCorrect of the last verify call

flowVars ==
    <<pc, attempts, session, response, privateOtp, challengeMetadata,
      creations, challengesIssued, lastAnswer, answerCorrect>>

VARIABLES
    httpRequest,        \* the last request the auth lambda handled, and the
                        \* time it arrived
    httpResponse,       \* its response
    providerCalls,      \* the provider commands sent while handling it
    respondResult,      \* the provider's answer to its authentication call
                        \* (RespondToAuthChallenge, or InitiateAuth of a refresh)
    providerError,      \* the error a provider call threw while handling it, if any
    accounts,           \* the phone numbers the provider holds an account for
    callTaken           \* the provider has taken up the command the handler waits
                        \* for and runs the triggers for it

authVars == <<httpRequest, httpResponse, providerCalls, respondResult, providerError,
              accounts, callTaken>>

\* No such call was made.
NoRespondResult ==
    [kind |-> "none", IdToken |-> Absent, RefreshToken |-> Absent, message |-> ""]

VARIABLES
    ENVIRONMENT,        \* process.env.ENVIRONMENT || 'dev' of the auth lambda
    renderCall,         \* the last call that rendered cookies, with its arguments
    setCookie,          \* the text it returned
    extraction          \* the last extractCookie call: arguments and result

codecVars == <<ENVIRONMENT, renderCall, setCookie, extraction>>

VARIABLES
    now,                \* the authorizer's clock, in ticks
    providerKeys,       \* the key set the provider publishes
    jwksCache,          \* the authorizer's cache slot: key set and fetch time
    authzRequest,       \* the headers of the last request to the authorizer
    authzResult,        \* its outcome, and the key-set fetches it made
    inFlight            \* the invocations that have not returned yet: the await
                        \* each is suspended at and the values it holds

authzVars == <<now, providerKeys, jwksCache, authzRequest, authzResult, inFlight>>

vars == <<flowVars, authVars, authzVars, codecVars>>

nonFlowVars == <<authVars, authzVars, codecVars>>

FlowInit ==
    /\ pc = "idle"
    /\ attempts = 0
    /\ session = <<>>
    /\ response = EmptyResponse
    /\ privateOtp = <<>>
    /\ challengeMetadata = <<>>
    /\ creations = <<>>
    /\ challengesIssued = 0
    /\ lastAnswer = <<>>
    /\ answerCorrect = FALSE

AuthInit ==
    /\ httpRequest = [op |-> "none", phoneNumber |-> Absent, otp |-> Absent,
                      session |-> Absent, cookies |-> <<>>, time |-> NowMs(0)]
    /\ httpResponse = NoHttpResponse
    /\ providerCalls = <<>>
    /\ respondResult = NoRespondResult
    /\ providerError = NoProviderError
    /\ accounts = {}
    /\ callTaken = FALSE

NoAuthzResult ==
    [outcome |-> "none", principalId |-> "", context |-> NoContext,
     logged |-> "", nowMs |-> 0, fetches |-> 0]

\* What fetchJwks returned to an invocation; nothing yet.
NoJwks == [threw |-> FALSE, fetched |-> FALSE, keys |-> {}]

\* An invocation slot with no invocation in it.
NotSuspended ==
    [phase |-> "idle", headers |-> NoHeaders, startMs |-> 0, jwks |-> NoJwks,
     verdict |-> "", nowMs |-> 0]

AuthzInit ==
    /\ now = 0
    /\ providerKeys = {Key1}
    /\ jwksCache = EmptyCache
    /\ authzRequest = NoHeaders
    /\ authzResult = NoAuthzResult
    /\ inFlight = [v \in 1..NumVerifiers |-> NotSuspended]

NoRenderCall == [fn |-> "none", idToken |-> <<>>, refreshToken |-> <<>>]

NoExtraction == [fn |-> "none", cookieHeader |-> <<>>, name |-> <<>>, value |-> Absent]

CodecInit ==
    /\ ENVIRONMENT \in {"prod", "dev"}
    /\ renderCall = NoRenderCall
    /\ setCookie = <<>>
    /\ extraction = NoExtraction

Init == FlowInit /\ AuthInit /\ AuthzInit /\ CodecInit

(***************************************************************************)
(* Auth lambda: the cookie codec.                                          *)
(***************************************************************************)
\* Array.prototype.join(sep)
RECURSIVE Join(_, _)
Join(parts, sep) ==
    IF Len(parts) = 0 THEN <<>>
    ELSE IF Len(parts) = 1 THEN parts[1]
    ELSE parts[1] \o sep \o Join(Tail(parts), sep)

idTokenName == <<"i", "d", "T", "o", "k", "e", "n">>

refreshTokenName == <<"r", "e", "f", "r", "e", "s", "h", "T", "o", "k", "e", "n">>

\* Mutant: Secure is set in every environment.
cookieOptions_AlwaysSecure ==
    <<"H", "t", "t", "p", "O", "n", "l", "y", ";", " ">> \o <<"S", "e", "c", "u", "r", "e", ";", " ">> \o <<"S", "a", "m", "e", "S", "i", "t", "e", "=", "L", "a", "x", ";", " ", "P", "a", "t", "h", "=", "/">>

\* `HttpOnly; ${isProduction ? 'Secure; ' : ''}SameSite=Lax; Path=/`
cookieOptions ==
    LET isProduction == ENVIRONMENT = "prod"
    IN  <<"H", "t", "t", "p", "O", "n", "l", "y", ";", " ">>
        \o (IF isProduction THEN <<"S", "e", "c", "u", "r", "e", ";", " ">> ELSE <<>>)
        \o <<"S", "a", "m", "e", "S", "i", "t", "e", "=", "L", "a", "x", ";", " ", "P", "a", "t", "h", "=", "/">>

\* Mutant: the two lifetimes are swapped.
createAuthCookies_SwappedMaxAge(idToken, refreshToken) ==
    Join(<<idTokenName \o <<"=">> \o idToken \o <<";", " ">> \o cookieOptions
              \o <<";", " ", "M", "a", "x", "-", "A", "g", "e", "=", "6", "0", "4", "8", "0", "0">>,
           refreshTokenName \o <<"=">> \o refreshToken \o <<";", " ">> \o cookieOptions
              \o <<";", " ", "M", "a", "x", "-", "A", "g", "e", "=", "3", "6", "0", "0">>>>,
         <<",", " ">>)

\* createAuthCookies(idToken, refreshToken): one text, the two cookies joined
\* by `, `.
createAuthCookies(idToken, refreshToken) ==
    Join(<<idTokenName \o <<"=">> \o idToken \o <<";", " ">> \o cookieOptions
              \o <<";", " ", "M", "a", "x", "-", "A", "g", "e", "=", "3", "6", "0", "0">>,
           refreshTokenName \o <<"=">> \o refreshToken \o <<";", " ">> \o cookieOptions
              \o <<";", " ", "M", "a", "x", "-", "A", "g", "e", "=", "6", "0", "4", "8", "0", "0">>>>,
         <<",", " ">>)

\* clearAuthCookies(): the two cookies with empty values and Max-Age=0.
clearAuthCookies ==
    Join(<<idTokenName \o <<"=">> \o <<";", " ">> \o cookieOptions
              \o <<";", " ", "M", "a", "x", "-", "A", "g", "e", "=", "0">>,
           refreshTokenName \o <<"=">> \o <<";", " ">> \o cookieOptions
              \o <<";", " ", "M", "a", "x", "-", "A", "g", "e", "=", "0">>>>,
         <<",", " ">>)

\* extractCookie(cookieHeader, name): the value of the first cookie of that
\* name, up to its next `=`; absent (null) without such a cookie.
extractCookie(cookieHeader, name) ==
    IF cookieHeader = <<>> THEN Absent
    ELSE LET cookies == MapTrim(Split(cookieHeader, ";"))
             k == FindStartsWith(cookies, name \o <<"=">>)
         IN  IF k = 0 THEN Absent
             ELSE Str(Split(cookies[k], "=")[2])

(***************************************************************************)
(* Auth lambda: verify-otp.                                                *)
(***************************************************************************)
\* The message of the TypeError a property read of null throws.
TypeErrorMessage == "Cannot read properties of null (reading 'sub')"

\* parseIdToken(idToken): the user record of the decoded token; it throws
\* when jwt.decode returns null.
parseIdToken(idToken) ==
    LET decoded == jwtDecode(idToken)
    IN  IF ~decoded.wellFormed THEN [threw |-> TRUE, user |-> NoUser]
        ELSE [threw |-> FALSE,
              user  |-> [userId        |-> decoded.sub,
                         phoneNumber   |-> decoded.phone_number,
                         email         |-> decoded.email,
                         name          |-> decoded.name,
                         emailVerified |-> decoded.email_verified,
                         phoneVerified |-> decoded.phone_number_verified,
                         role          |-> IF decoded.role = "" THEN "user"
                                           ELSE decoded.role,
                         company       |-> decoded.company]]

\* verifyOtp(body): the response and the provider commands sent, given the
\* provider's answer to RespondToAuthChallenge.
verifyOtp_ChallengeIs401(body, respond) ==
    IF Falsy(body.phoneNumber) \/ Falsy(body.otp) \/ Falsy(body.session)
    THEN [response |-> HttpResponse(400, "Phone number, OTP, and session are required",
                                    "none", FALSE),
          calls |-> <<>>]
    ELSE IF respond.kind = "AuthenticationResult"
    THEN IF Falsy(respond.IdToken) \/ Falsy(respond.RefreshToken)
         THEN [response |-> HttpResponse(500, "Failed to verify OTP",
                                         "Missing tokens in authentication result", FALSE),
               calls |-> <<"RespondToAuthChallenge">>]
         ELSE IF parseIdToken(respond.IdToken.text).threw
         THEN [response |-> HttpResponse(500, "Failed to verify OTP", TypeErrorMessage,
                                         FALSE),
               calls |-> <<"RespondToAuthChallenge">>]
         ELSE [response |->
                  [HttpResponse(200, "none", "Authentication successful", FALSE)
                      EXCEPT !.setCookie = <<createAuthCookies(respond.IdToken.text,
                                                               respond.RefreshToken.text)>>,
                             !.success = TRUE,
                             !.user = parseIdToken(respond.IdToken.text).user],
               calls |-> <<"RespondToAuthChallenge">>]
    ELSE IF respond.kind = "challenge"
    THEN [response |-> HttpResponse(401, "Invalid OTP code", "none", FALSE),
          calls |-> <<"RespondToAuthChallenge">>]
    ELSE IF respond.kind \in {"NotAuthorizedException", "CodeMismatchException"}
    THEN [response |-> HttpResponse(401, "Invalid OTP code", "none", FALSE),
          calls |-> <<"RespondToAuthChallenge">>]
    ELSE [response |-> HttpResponse(500, "Failed to verify OTP", respond.message, FALSE),
          calls |-> <<"RespondToAuthChallenge">>]

verifyOtp(body, respond) ==
    IF Falsy(body.phoneNumber) \/ Falsy(body.otp) \/ Falsy(body.session)
    THEN [response |-> HttpResponse(400, "Phone number, OTP, and session are required",
                                    "none", FALSE),
          calls |-> <<>>]
    ELSE IF respond.kind = "AuthenticationResult"
    THEN IF Falsy(respond.IdToken) \/ Falsy(respond.RefreshToken)
         THEN [response |-> HttpResponse(500, "Failed to verify OTP",
                                         "Missing tokens in authentication result", FALSE),
               calls |-> <<"RespondToAuthChallenge">>]
         ELSE IF parseIdToken(respond.IdToken.text).threw
         THEN [response |-> HttpResponse(500, "Failed to verify OTP", TypeErrorMessage,
                                         FALSE),
               calls |-> <<"RespondToAuthChallenge">>]
         ELSE [response |->
                  [HttpResponse(200, "none", "Authentication successful", FALSE)
                      EXCEPT !.setCookie = <<createAuthCookies(respond.IdToken.text,
                                                               respond.RefreshToken.text)>>,
                             !.success = TRUE,
                             !.user = parseIdToken(respond.IdToken.text).user],
               calls |-> <<"RespondToAuthChallenge">>]
    ELSE IF respond.kind = "challenge"
    THEN [response |-> HttpResponse(200, "none", "Additional challenge required", TRUE),
          calls |-> <<"RespondToAuthChallenge">>]
    ELSE IF respond.kind \in {"NotAuthorizedException", "CodeMismatchException"}
    THEN [response |-> HttpResponse(401, "Invalid OTP code", "none", FALSE),
          calls |-> <<"RespondToAuthChallenge">>]
    ELSE [response |-> HttpResponse(500, "Failed to verify OTP", respond.message, FALSE),
          calls |-> <<"RespondToAuthChallenge">>]

\* The provider's answers to RespondToAuthChallenge: an authentication result
\* (with or without each credential), a further challenge, or an error.
RespondResultsOf(idTokens, refreshTokens, errorNames, messages) ==
    {[kind |-> "AuthenticationResult", IdToken |-> i, RefreshToken |-> r,
      message |-> ""] : i \in idTokens, r \in refreshTokens}
    \cup {[NoRespondResult EXCEPT !.kind = "challenge"]}
    \cup {[NoRespondResult EXCEPT !.kind = k, !.message = m] :
             k \in errorNames, m \in messages}

RespondResults ==
    RespondResultsOf({Absent, Str(<<"tGood">>), Str(<<"tBare">>)},
                     {Absent, Str(<<"rT">>)},
                     {"NotAuthorizedException", "CodeMismatchException",
                      "InternalErrorException"},
                     {"provider message 1"})

\* The bodies of verify-otp requests.
VerifyOtpBodies ==
    [phoneNumber : {Absent, Str(<<"+", "1", "2", "3", "4", "5", "6", "7", "8", "9", "0", "0">>)},
     otp         : {Absent, Str(<<>>), Str(NeverIssued)},
     session     : {Absent, Str(<<"s">>)}]

(***************************************************************************)
(* The custom-auth flow: the provider calls the triggers in turn.          *)
(***************************************************************************)
\* The provider opens a custom-auth attempt: the round history is empty.
StartAttempt ==
    /\ attempts' = attempts + 1
    /\ pc' = "define"
    /\ session' = <<>>
    /\ response' = EmptyResponse
    /\ privateOtp' = <<>>
    /\ challengeMetadata' = <<>>
    /\ creations' = <<>>
    /\ challengesIssued' = 0
    /\ lastAnswer' = <<>>
    /\ answerCorrect' = FALSE

\* A client starts a login attempt.
InitiateAuth ==
    /\ UNCHANGED nonFlowVars
    /\ pc \in {"idle", "success", "failure"}
    /\ attempts < MaxAttempts
    /\ StartAttempt

\* The define trigger decides; the provider follows its decision.
DefineStep ==
    /\ UNCHANGED nonFlowVars
    /\ pc = "define"
    /\ response' = DefineAuthChallenge(session)
    /\ pc' = IF response'.failAuthentication THEN "failure"
             ELSE IF response'.issueTokens THEN "success"
             ELSE "create"
    /\ challengesIssued' =
          IF response'.challengeName = "CUSTOM_CHALLENGE"
          THEN challengesIssued + 1 ELSE challengesIssued
    /\ UNCHANGED <<attempts, session, privateOtp, challengeMetadata, creations,
                   lastAnswer, answerCorrect>>

\* One invocation of the create trigger, up to its await of the delivery call.
CreateInvocation(sess, u) ==
    LET otp == ChooseOtp(sess, u)
    IN  [round     |-> Len(sess),
         otp       |-> otp,
         published |-> SnsPublishes(sess, otp),
         delivery  |-> "pending",
         status    |-> StatusAtPublish]

CreateStart ==
    /\ UNCHANGED nonFlowVars
    /\ pc = "create"
    /\ \E u \in RandomDraws :
          creations' = Append(creations, CreateInvocation(session, u))
    /\ pc' = "publishing"
    /\ UNCHANGED <<attempts, session, response, privateOtp, challengeMetadata,
                   challengesIssued, lastAnswer, answerCorrect>>

\* The trigger has not answered in time: the provider gives up on the running
\* invocation and invokes the trigger again with the same request.
Retries == Cardinality({i \in 1..Len(creations) : creations[i].status = "timedOut"})

CreateRetry ==
    /\ UNCHANGED nonFlowVars
    /\ pc = "publishing"
    /\ Retries < MaxRetries
    /\ \E u \in RandomDraws :
          creations' =
             Append([creations EXCEPT ![Len(creations)].status = "timedOut"],
                    CreateInvocation(session, u))
    /\ UNCHANGED <<pc, attempts, session, response, privateOtp, challengeMetadata,
                   challengesIssued, lastAnswer, answerCorrect>>

\* The delivery call settles and the suspended handler runs to its end.
CreateResume(delivery) ==
    LET n == Len(creations)
        status == CreateCompletion(delivery)
    IN  /\ UNCHANGED nonFlowVars
        /\ pc = "publishing"
        /\ creations' = [creations EXCEPT ![n].delivery = delivery,
                                          ![n].status = status]
        /\ IF status = "returned"
           THEN /\ pc' = "awaiting"
                /\ privateOtp' = creations[n].otp
                /\ challengeMetadata' = creations[n].otp
           ELSE /\ pc' = "error"
                /\ UNCHANGED <<privateOtp, challengeMetadata>>
        /\ UNCHANGED <<attempts, session, response, challengesIssued,
                       lastAnswer, answerCorrect>>

SnsPublishSucceeds == CreateResume("ok")

SnsPublishFails == CreateResume("failed")

\* The create invocations the provider gave up on while their delivery call
\* had not settled.
Abandoned ==
    {i \in 1..Len(creations) :
        creations[i].status = "timedOut" /\ creations[i].delivery = "pending"}

\* The delivery call of an invocation the provider gave up on settles: its
\* handler runs on to `return event` (through the catch block when the call
\* failed), and the provider, which no longer waits for it, takes nothing
\* from what it returns.
AbandonedPublishSettles(delivery) ==
    /\ UNCHANGED nonFlowVars
    /\ \E i \in Abandoned :
          creations' = [creations EXCEPT ![i].delivery = delivery]
    /\ UNCHANGED <<pc, attempts, session, response, privateOtp, challengeMetadata,
                   challengesIssued, lastAnswer, answerCorrect>>

AbandonedPublishSucceeds == AbandonedPublishSettles("ok")

AbandonedPublishFails == AbandonedPublishSettles("failed")

\* The verify trigger judges an answer to the open challenge.
VerifyAnswerStep(a) ==
    /\ pc = "awaiting"
    /\ lastAnswer' = a
    /\ answerCorrect' = VerifyAnswer(a, privateOtp)
    /\ pc' = "verified"
    /\ UNCHANGED <<attempts, session, response, privateOtp, challengeMetadata,
                   creations, challengesIssued>>

\* The client answers the open challenge.
VerifyStep ==
    /\ UNCHANGED nonFlowVars
    /\ \E a \in Answers(privateOtp) : VerifyAnswerStep(a)

\* The provider appends the round to the history and asks the define trigger.
RecordRound ==
    /\ UNCHANGED nonFlowVars
    /\ pc = "verified"
    /\ session' = Append(session,
                         [challengeName     |-> "CUSTOM_CHALLENGE",
                          challengeResult   |-> answerCorrect,
                          challengeMetadata |-> challengeMetadata])
    /\ pc' = "define"
    /\ UNCHANGED <<attempts, response, privateOtp, challengeMetadata, creations,
                   challengesIssued, lastAnswer, answerCorrect>>

Next ==
    \/ InitiateAuth
    \/ DefineStep
    \/ CreateStart
    \/ CreateRetry
    \/ SnsPublishSucceeds
    \/ SnsPublishFails
    \/ AbandonedPublishSucceeds
    \/ AbandonedPublishFails
    \/ VerifyStep
    \/ RecordRound

Spec == Init /\ [][Next]_vars

(***************************************************************************)
(* The authorizer: requests, the clock and the provider's key rotation.    *)
(***************************************************************************)
\* The outcome of an invocation, and the clock value it validated with.
AuthzOutcome(r, nowMs) ==
    [outcome     |-> r.outcome,
     principalId |-> r.principalId,
     context     |-> r.context,
     logged      |-> r.logged,
     nowMs       |-> nowMs,
     fetches     |-> r.fetches]

\* The invocation of a slot is suspended at `await axios.get(JWKS_URL)`.
AtAxiosGet(v) == inFlight[v].phase = "axios.get"

\* The invocation of a slot is suspended at `await fetchJwks()`, and fetchJwks
\* has settled.
AtFetchJwks(v) == inFlight[v].phase = "fetchJwks"

\* The invocation of a slot is suspended at `await validateJwt(token)`, and
\* validateJwt has settled.
AtValidateJwt(v) == inFlight[v].phase = "validateJwt"

\* What an invocation holds of the value fetchJwks settled with.
Held(jwks) == [threw |-> jwks.threw, fetched |-> jwks.fetched, keys |-> jwks.keys]

\* An invocation that makes no fetch. Without a token the handler throws and
\* catches before any await and the result is there at once. With a token
\* and a cache that the `now` of line 184 finds warm, fetchJwks returns the
\* cached key set and the invocation yields at `await fetchJwks()`.
VerifyWithoutFetchOf(v, requests) ==
    /\ inFlight[v].phase = "idle"
    /\ \E headers \in requests :
          /\ authzRequest' = headers
          /\ IF Falsy(ExtractedToken[headers])
             THEN /\ authzResult' =
                        AuthzOutcome(Denied("No authentication token provided",
                                            jwksCache, 0), NowMs(now))
                  /\ UNCHANGED inFlight
             ELSE /\ fetchJwksServesCache(jwksCache, NowMs(now))
                  /\ authzResult' = NoAuthzResult
                  /\ inFlight' =
                        [inFlight EXCEPT ![v] =
                            [NotSuspended EXCEPT
                                !.phase = "fetchJwks",
                                !.headers = headers,
                                !.startMs = NowMs(now),
                                !.jwks = Held(fetchJwks(jwksCache, NowMs(now), "ok",
                                                        providerKeys))]]
    /\ UNCHANGED <<now, providerKeys, jwksCache, flowVars, authVars, codecVars>>

\* An invocation with a token finds the cache cold or stale and suspends at
\* `await axios.get(JWKS_URL)`, holding the `now` it read.
FetchSuspendsOf(v, requests) ==
    /\ inFlight[v].phase = "idle"
    /\ \E headers \in requests :
          /\ ~Falsy(ExtractedToken[headers])
          /\ ~fetchJwksServesCache(jwksCache, NowMs(now))
          /\ inFlight' = [inFlight EXCEPT ![v] =
                            [NotSuspended EXCEPT !.phase = "axios.get",
                                                 !.headers = headers,
                                                 !.startMs = NowMs(now)]]
          /\ authzRequest' = headers
    /\ authzResult' = NoAuthzResult
    /\ UNCHANGED <<now, providerKeys, jwksCache, flowVars, authVars, codecVars>>

\* The fetch of a suspended invocation answers with the key set the provider
\* publishes: fetchJwks fills the slot with the `now` it read before the
\* fetch and returns the set, and the invocation waits at `await fetchJwks()`
\* for its continuation.
FetchResumes(v) ==
    /\ AtAxiosGet(v)
    /\ LET jwks == fetchJwksResumed(jwksCache, providerKeys, inFlight[v].startMs)
       IN  /\ jwksCache' = jwks.cache
           /\ inFlight' = [inFlight EXCEPT ![v].phase = "fetchJwks",
                                           ![v].jwks = Held(jwks)]
    /\ UNCHANGED <<now, providerKeys, authzRequest, authzResult, flowVars, authVars,
                   codecVars>>

\* The fetch of a suspended invocation fails: fetchJwks rejects and nothing
\* is assigned.
FetchRejects(v) ==
    /\ AtAxiosGet(v)
    /\ LET jwks == fetchJwksRejected(jwksCache)
       IN  /\ jwksCache' = jwks.cache
           /\ inFlight' = [inFlight EXCEPT ![v].phase = "fetchJwks",
                                           ![v].jwks = Held(jwks)]
    /\ UNCHANGED <<now, providerKeys, authzRequest, authzResult, flowVars, authVars,
                   codecVars>>

\* The continuation of `await fetchJwks()` in validateJwt: the token is
\* checked against the key set fetchJwks returned, with the clock as it is
\* now, and the invocation waits at `await validateJwt(token)`.
ValidateJwtResumes(v) ==
    /\ AtFetchJwks(v)
    /\ inFlight' =
          [inFlight EXCEPT
              ![v].phase = "validateJwt",
              ![v].verdict = validateJwtResumed(ExtractedToken[inFlight[v].headers],
                                                inFlight[v].jwks, NowMs(now)),
              ![v].nowMs = NowMs(now)]
    /\ UNCHANGED <<now, providerKeys, jwksCache, authzRequest, authzResult, flowVars,
                   authVars, codecVars>>

\* The continuation of `await validateJwt(token)` in the handler: the policy,
\* or the catch block.
HandlerResumes(v) ==
    /\ AtValidateJwt(v)
    /\ LET f == inFlight[v]
           r == handlerResumed(f.headers, f.verdict, jwksCache,
                               IF f.jwks.fetched THEN 1 ELSE 0)
       IN  /\ authzRequest' = f.headers
           /\ authzResult' = AuthzOutcome(r, f.nowMs)
    /\ inFlight' = [inFlight EXCEPT ![v] = NotSuspended]
    /\ UNCHANGED <<now, providerKeys, jwksCache, flowVars, authVars, codecVars>>

\* One execution environment of the authorizer serves one invocation at a
\* time: the requests below go to invocation slot 1.
Authorize == VerifyWithoutFetchOf(1, AuthzRequests)

AuthorizeSuspends == FetchSuspendsOf(1, AuthzRequests)

Tick ==
    /\ now < MaxTicks
    /\ now' = now + 1
    /\ UNCHANGED <<providerKeys, jwksCache, authzRequest, authzResult, inFlight,
                   flowVars, authVars, codecVars>>

\* The provider adds a second signing key to the set it publishes.
RotateKeys ==
    /\ providerKeys = {Key1}
    /\ providerKeys' = {Key1, Key2}
    /\ UNCHANGED <<now, jwksCache, authzRequest, authzResult, inFlight, flowVars,
                   authVars, codecVars>>

AuthzNext ==
    \/ Authorize
    \/ AuthorizeSuspends
    \/ FetchResumes(1)
    \/ FetchRejects(1)
    \/ ValidateJwtResumes(1)
    \/ HandlerResumes(1)
    \/ Tick
    \/ RotateKeys

SpecAuthz == Init /\ [][AuthzNext]_vars

(***************************************************************************)
(* The cookie codec on its own: cookies are rendered for credentials and   *)
(* values are extracted from cookie headers.                               *)
(***************************************************************************)
\* Credential values: tokens, the empty text and a value that holds `=`.
CredentialTexts == {<<"tGood">>, <<"tBare">>, <<"rT">>, <<>>, <<"rT", "=", "=">>}

\* Cookie headers of requests.
CodecCookieHeaders ==
    {<<>>,
     <<"i", "d", "T", "o", "k", "e", "n", "=", "tGood", ";", " ", "r", "e", "f", "r", "e", "s", "h", "T", "o", "k", "e", "n", "=", "rT">>,
     <<"r", "e", "f", "r", "e", "s", "h", "T", "o", "k", "e", "n", "=", "rT", ";", "i", "d", "T", "o", "k", "e", "n", "=", "tGood">>,
     <<"i", "d", "T", "o", "k", "e", "n", "=", "tGood", "=", "x">>,
     <<"t", "h", "e", "m", "e", "=", "d", "a", "r", "k", ";", " ", "r", "e", "f", "r", "e", "s", "h", "T", "o", "k", "e", "n", "=", "rT", "=", "=">>,
     <<"x", "i", "d", "T", "o", "k", "e", "n", "=", "tGood">>,
     <<"i", "d", "T", "o", "k", "e", "n">>,
     <<" ", "i", "d", "T", "o", "k", "e", "n", "=", "tGood", " ", ";", " ", "r", "e", "f", "r", "e", "s", "h", "T", "o", "k", "e", "n", "=", "rT", " ">>,
     <<"i", "d", "T", "o", "k", "e", "n", "=", ";", " ", "i", "d", "T", "o", "k", "e", "n", "=", "tGood">>,
     <<"i", "d", "T", "o", "k", "e", "n", "X", "=", "tBare", ";", " ", "i", "d", "T", "o", "k", "e", "n", "=", "tGood">>,
     <<"t", "h", "e", "m", "e", "=", "d", "a", "r", "k", ";", "\t", "i", "d", "T", "o", "k", "e", "n", "=", "tGood">>,
     <<"\n", "i", "d", "T", "o", "k", "e", "n", "=", "tGood", "U+00A0", ";", "\f", "r", "e", "f", "r", "e", "s", "h", "T", "o", "k", "e", "n", "=", "rT", "\r">>}

CreateAuthCookies ==
    /\ \E idToken \in CredentialTexts, refreshToken \in CredentialTexts :
          /\ renderCall' = [fn |-> "createAuthCookies", idToken |-> idToken,
                            refreshToken |-> refreshToken]
          /\ setCookie' = createAuthCookies(idToken, refreshToken)
    /\ UNCHANGED <<ENVIRONMENT, extraction, flowVars, authVars, authzVars>>

ClearAuthCookies ==
    /\ renderCall' = [NoRenderCall EXCEPT !.fn = "clearAuthCookies"]
    /\ setCookie' = clearAuthCookies
    /\ UNCHANGED <<ENVIRONMENT, extraction, flowVars, authVars, authzVars>>

\* A value is extracted from a request's cookie header, or from the text the
\* codec rendered last.
ExtractCookie ==
    /\ \E cookieHeader \in CodecCookieHeaders \cup {setCookie},
          name \in {idTokenName, refreshTokenName} :
          extraction' = [fn |-> "extractCookie", cookieHeader |-> cookieHeader,
                         name |-> name,
                         value |-> extractCookie(cookieHeader, name)]
    /\ UNCHANGED <<ENVIRONMENT, renderCall, setCookie, flowVars, authVars, authzVars>>

CodecNext ==
    \/ CreateAuthCookies
    \/ ClearAuthCookies
    \/ ExtractCookie

SpecCodec == Init /\ [][CodecNext]_vars

(***************************************************************************)
(* Auth lambda: refresh, logout and get-current-user.                      *)
(***************************************************************************)
\* refreshToken(cookieHeader), given the provider's answer to InitiateAuth
\* with REFRESH_TOKEN_AUTH (`challenge`: a response without
\* AuthenticationResult).  An error thrown inside the try block, the
\* provider's or the handler's own, is answered by the catch block with the
\* error's message.
refreshToken_NewCredential(cookieHeader, respond) ==
    LET token == extractCookie(cookieHeader, refreshTokenName)
    IN  IF Falsy(token)
        THEN [response |-> HttpResponse(401, "No refresh token provided", "none", FALSE),
              calls |-> <<>>]
        ELSE IF respond.kind = "AuthenticationResult"
        THEN IF Falsy(respond.IdToken)
             THEN [response |-> HttpResponse(401, "Invalid or expired refresh token",
                                             "Missing ID token in refresh response",
                                             FALSE),
                   calls |-> <<"InitiateAuth">>]
             ELSE IF parseIdToken(respond.IdToken.text).threw
             THEN [response |-> HttpResponse(401, "Invalid or expired refresh token",
                                             TypeErrorMessage, FALSE),
                   calls |-> <<"InitiateAuth">>]
             ELSE [response |->
                      [HttpResponse(200, "none", "Token refreshed successfully", FALSE)
                          EXCEPT !.setCookie =
                                    <<createAuthCookies(
                                         respond.IdToken.text,
                                         IF Falsy(respond.RefreshToken) THEN token.text
                                         ELSE respond.RefreshToken.text)>>,
                                 !.success = TRUE,
                                 !.user = parseIdToken(respond.IdToken.text).user],
                   calls |-> <<"InitiateAuth">>]
        ELSE IF respond.kind = "challenge"
        THEN [response |-> HttpResponse(401, "Failed to refresh token", "none", FALSE),
              calls |-> <<"InitiateAuth">>]
        ELSE [response |-> HttpResponse(401, "Invalid or expired refresh token",
                                        respond.message, FALSE),
              calls |-> <<"InitiateAuth">>]

refreshToken_Retry(cookieHeader, respond) ==
    LET token == extractCookie(cookieHeader, refreshTokenName)
    IN  IF Falsy(token)
        THEN [response |-> HttpResponse(401, "No refresh token provided", "none", FALSE),
              calls |-> <<>>]
        ELSE IF respond.kind = "AuthenticationResult"
        THEN IF Falsy(respond.IdToken)
             THEN [response |-> HttpResponse(401, "Invalid or expired refresh token",
                                             "Missing ID token in refresh response",
                                             FALSE),
                   calls |-> <<"InitiateAuth">>]
             ELSE IF parseIdToken(respond.IdToken.text).threw
             THEN [response |-> HttpResponse(401, "Invalid or expired refresh token",
                                             TypeErrorMessage, FALSE),
                   calls |-> <<"InitiateAuth">>]
             ELSE [response |->
                      [HttpResponse(200, "none", "Token refreshed successfully", FALSE)
                          EXCEPT !.setCookie = <<createAuthCookies(respond.IdToken.text,
                                                                   token.text)>>,
                                 !.success = TRUE,
                                 !.user = parseIdToken(respond.IdToken.text).user],
                   calls |-> <<"InitiateAuth">>]
        ELSE IF respond.kind = "challenge"
        THEN [response |-> HttpResponse(401, "Failed to refresh token", "none", FALSE),
              calls |-> <<"InitiateAuth">>]
        ELSE [response |-> HttpResponse(401, "Invalid or expired refresh token",
                                        respond.message, FALSE),
              calls |-> <<"InitiateAuth", "InitiateAuth">>]

refreshToken(cookieHeader, respond) ==
    LET token == extractCookie(cookieHeader, refreshTokenName)
    IN  IF Falsy(token)
        THEN [response |-> HttpResponse(401, "No refresh token provided", "none", FALSE),
              calls |-> <<>>]
        ELSE IF respond.kind = "AuthenticationResult"
        THEN IF Falsy(respond.IdToken)
             THEN [response |-> HttpResponse(401, "Invalid or expired refresh token",
                                             "Missing ID token in refresh response",
                                             FALSE),
                   calls |-> <<"InitiateAuth">>]
             ELSE IF parseIdToken(respond.IdToken.text).threw
             THEN [response |-> HttpResponse(401, "Invalid or expired refresh token",
                                             TypeErrorMessage, FALSE),
                   calls |-> <<"InitiateAuth">>]
             ELSE [response |->
                      [HttpResponse(200, "none", "Token refreshed successfully", FALSE)
                          EXCEPT !.setCookie = <<createAuthCookies(respond.IdToken.text,
                                                                   token.text)>>,
                                 !.success = TRUE,
                                 !.user = parseIdToken(respond.IdToken.text).user],
                   calls |-> <<"InitiateAuth">>]
        ELSE IF respond.kind = "challenge"
        THEN [response |-> HttpResponse(401, "Failed to refresh token", "none", FALSE),
              calls |-> <<"InitiateAuth">>]
        ELSE [response |-> HttpResponse(401, "Invalid or expired refresh token",
                                        respond.message, FALSE),
              calls |-> <<"InitiateAuth">>]

\* logout(): takes no argument and calls nothing.
logout_GlobalSignOut ==
    [response |-> [HttpResponse(200, "none", "Logged out successfully", FALSE)
                      EXCEPT !.setCookie = <<clearAuthCookies>>, !.success = TRUE],
     calls |-> <<"GlobalSignOut">>]

logout ==
    [response |-> [HttpResponse(200, "none", "Logged out successfully", FALSE)
                      EXCEPT !.setCookie = <<clearAuthCookies>>, !.success = TRUE],
     calls |-> <<>>]

\* getCurrentUser(cookieHeader): the token is decoded, not verified.
getCurrentUser(cookieHeader) ==
    LET idToken == extractCookie(cookieHeader, idTokenName)
    IN  IF Falsy(idToken)
        THEN [response |-> HttpResponse(401, "Not authenticated", "none", FALSE),
              calls |-> <<>>]
        ELSE IF parseIdToken(idToken.text).threw
        THEN [response |-> HttpResponse(401, "Invalid token", TypeErrorMessage, FALSE),
              calls |-> <<>>]
        ELSE [response |-> [HttpResponse(200, "none", "none", FALSE)
                               EXCEPT !.success = TRUE,
                                      !.user = parseIdToken(idToken.text).user],
              calls |-> <<>>]

(***************************************************************************)
(* The auth lambda's endpoints together, with the clock: a client's        *)
(* requests in any order, each answered by the provider in any way.        *)
(***************************************************************************)
CookiePair(name, value) == name \o <<"=">> \o value

\* event.headers?.Cookie || event.headers?.cookie || '': the empty text for a
\* request without cookies.
ApiCookieHeaders ==
    {<<>>}
    \cup {CookiePair(idTokenName, <<t>>) \o <<";", " ">>
             \o CookiePair(refreshTokenName, r) :
             t \in {"tGood", "tShort", "tForged", "tWrongIss", "tNone", "tGarbage"},
             r \in {<<"rT">>}}
    \cup {CookiePair(refreshTokenName, r) : r \in {<<>>, <<"rT", "=", "=">>}}
    \cup {<<"t", "h", "e", "m", "e", "=", "d", "a", "r", "k">>}

ApiPhoneFields ==
    {Absent, Str(<<"1", "2">>),
     Str(<<"+", "1", "2", "3", "4", "5", "6", "7", "8", "9", "0", "0">>)}

ApiOutcomes ==
    {ProviderOk} \cup {ProviderError(n, m) : n \in ProviderErrorNames, m \in RawMessages}

\* The provider's error for an answer submitted on a Session that has expired:
\* a NotAuthorizedException, as for a failed authentication, with its own
\* message.
SessionExpiredMessage == "Invalid session for the user, session is expired."

SessionExpired ==
    [NoRespondResult EXCEPT !.kind = "NotAuthorizedException",
                            !.message = SessionExpiredMessage]

ApiRespondResults ==
    RespondResultsOf({Absent, Str(<<"tGood">>)}, {Absent, Str(<<"rT">>)},
                     ProviderErrorNames, RawMessages)
    \cup {SessionExpired}

RefreshResults ==
    RespondResultsOf({Absent, Str(<<"tGood">>), Str(<<"tGarbage">>)},
                     {Absent, Str(<<"rN">>)},
                     {"NotAuthorizedException", "UserNotFoundException",
                      "InternalErrorException"},
                     RawMessages)

RegisterPhones ==
    {Absent, Str(<<"1", "2">>),
     Str(<<"+", "1", "2", "3", "4", "5", "6", "7", "8", "9", "0", "0">>),
     Str(<<"+", "1", "2", "3", "4", "5", "6", "7", "8", "9", "0", "1">>)}

\* ValidPhone is a phone number the pattern accepts.
ValidPhone == Str(<<"+", "1", "2", "3", "4", "5", "6", "7", "8", "9", "0", "0">>)

\* The phone fields of the requests of all specifications, and what sendOtp
\* and registerUser come to for each when every command returns.
RequestPhones == PhoneFields \cup ApiPhoneFields \cup RegisterPhones \cup {ValidPhone}

sendOtpReturning ==
    [phone \in RequestPhones |-> sendOtp([phoneNumber |-> phone], ProviderOk)]

registerUserReturning ==
    [phone \in RequestPhones |->
        registerUser([phoneNumber |-> phone], ProviderOk, ProviderOk)]

(***************************************************************************)
(* The auth lambda.  A handler runs from the request to its response, or   *)
(* to an `await cognitoClient.send(...)`, where it is suspended until the  *)
(* provider has answered the command.  While the handler waits the         *)
(* provider does its part: SignUp creates the account, InitiateAuth opens  *)
(* a custom-auth attempt and runs the define and create triggers,          *)
(* RespondToAuthChallenge runs the verify and define triggers (and the     *)
(* create trigger for a further challenge).  One execution environment     *)
(* serves one request at a time.                                           *)
(***************************************************************************)
\* The handler of the last request is suspended at an await.
Suspended == httpRequest.op # "none" /\ httpResponse = NoHttpResponse

\* The command the suspended handler waits for.
PendingCall == providerCalls[Len(providerCalls)]

Request(op, phone, otp, sess, cookies) ==
    [op |-> op, phoneNumber |-> phone, otp |-> otp, session |-> sess,
     cookies |-> cookies, time |-> NowMs(now)]

\* The handler runs from the request to its first command, or to its
\* response when it sends none; `result` is what it would come to if every
\* command returned.
Receive(request, result) ==
    /\ ~Suspended
    /\ httpRequest' = request
    /\ IF result.calls = <<>>
       THEN /\ httpResponse' = result.response
            /\ providerCalls' = <<>>
       ELSE /\ httpResponse' = NoHttpResponse
            /\ providerCalls' = <<result.calls[1]>>
    /\ respondResult' = NoRespondResult
    /\ providerError' = NoProviderError
    /\ callTaken' = FALSE
    /\ UNCHANGED <<accounts, flowVars, authzVars, codecVars>>

\* The suspended handler resumes with the provider's last answer and runs to
\* its response.
Resume(result, respond, error) ==
    /\ httpResponse' = result.response
    /\ providerCalls' = result.calls
    /\ respondResult' = respond
    /\ providerError' = error
    /\ callTaken' = FALSE
    /\ UNCHANGED <<httpRequest, authzVars, codecVars>>

SendOtpOf(phones) ==
    \E phone \in phones :
       Receive(Request("send-otp", phone, Absent, Absent, <<>>),
               sendOtpReturning[phone])

RegisterUserOf(phones) ==
    \E phone \in phones :
       Receive(Request("register", phone, Absent, Absent, <<>>),
               registerUserReturning[phone])

\* The Session the provider issued with the challenge of round k + 1 of
\* attempt a: an opaque text, different for every challenge.
Digit(n) == <<"0", "1", "2", "3", "4", "5", "6", "7", "8", "9">>[n + 1]

SessionToken(a, k) == <<"s", Digit(a), Digit(k)>>

\* The codes of the messages delivered in the open attempt.
DeliveredCodes ==
    {creations[i].published[j].Code :
        i \in {n \in 1..Len(creations) : creations[n].delivery = "ok"},
        j \in 1..1}

\* The bodies a client can send that holds the Session of the open challenge
\* and answers with one of `codes`.
LiveBodies(phone, codes) ==
    IF pc = "awaiting"
    THEN [phoneNumber : {phone},
          otp         : {Str(c) : c \in codes},
          session     : {Str(SessionToken(attempts, Len(session)))}]
    ELSE {}

VerifyOtpOf(bodies) ==
    \E body \in bodies :
       Receive(Request("verify-otp", body.phoneNumber, body.otp, body.session, <<>>),
               verifyOtp(body, NoRespondResult))

RefreshTokenOf(cookieHeaders) ==
    \E cookieHeader \in cookieHeaders :
       Receive(Request("refresh", Absent, Absent, Absent, cookieHeader),
               refreshToken(cookieHeader, NoRespondResult))

LogoutOf(cookieHeaders) ==
    \E cookieHeader \in cookieHeaders :
       Receive(Request("logout", Absent, Absent, Absent, cookieHeader), logout)

GetCurrentUserOf(cookieHeaders) ==
    \E cookieHeader \in cookieHeaders :
       Receive(Request("me", Absent, Absent, Absent, cookieHeader),
               getCurrentUser(cookieHeader))

(***************************************************************************)
(* The provider's side of the commands.                                    *)
(***************************************************************************)
\* The phone number of the request being served; it is the username of the
\* account.
Username == httpRequest.phoneNumber.text

PhoneBody == [phoneNumber |-> httpRequest.phoneNumber]

\* SignUp returns for a phone number without an account (the number of
\* accounts is capped) and throws UsernameExistsException for one with an
\* account; it may fail for another reason when there is no account.
SignUpOutcomesOf(outcomes) ==
    IF Username \in accounts
    THEN {o \in outcomes : o.name = "UsernameExistsException"}
    ELSE {o \in outcomes :
             /\ o.name # "UsernameExistsException"
             /\ o.name = "ok" => Cardinality(accounts) < MaxAccounts}

\* InitiateAuth throws UserNotFoundException exactly when there is no
\* account, and may fail for another reason when there is one.
InitiateErrorsOf(outcomes) ==
    IF Username \in accounts
    THEN {o \in outcomes :
             o.name \notin {"ok", "UserNotFoundException", "UsernameExistsException"}}
    ELSE {o \in outcomes : o.name = "UserNotFoundException"}

\* Mutant: the account is removed again when the initiation fails.
AccountsAfterCatch_RolledBack(accts, phone) == accts \ {phone}

\* The provider's accounts after registerUser's catch block ran: it sends no
\* command, so the account SignUp created stays.
AccountsAfterCatch(accts, phone) == accts

\* SignUp is answered.  When it returns the account exists from here on and
\* the handler goes on to InitiateAuth, where it is suspended again.
SignUpAnswers(outcomes) ==
    /\ Suspended
    /\ httpRequest.op = "register"
    /\ providerCalls = <<"SignUp">>
    /\ \E signUp \in SignUpOutcomesOf(outcomes) :
          IF signUp.name = "ok"
          THEN /\ accounts' = accounts \cup {Username}
               /\ providerCalls' = <<"SignUp", "InitiateAuth">>
               /\ UNCHANGED <<httpRequest, httpResponse, respondResult, providerError,
                              callTaken, flowVars, authzVars, codecVars>>
          ELSE /\ Resume(registerUser(PhoneBody, signUp, ProviderOk),
                         NoRespondResult, signUp)
               /\ accounts' = AccountsAfterCatch(accounts, Username)
               /\ UNCHANGED flowVars

\* The handler waits for InitiateAuth of the custom-auth flow.
AwaitsInitiateAuth ==
    /\ Suspended
    /\ httpRequest.op \in {"send-otp", "register"}
    /\ PendingCall = "InitiateAuth"

\* What the handler comes to, given the provider's answer to InitiateAuth.
AfterInitiateAuth(initiate) ==
    IF httpRequest.op = "register"
    THEN registerUser(PhoneBody, ProviderOk, initiate)
    ELSE sendOtp(PhoneBody, initiate)

\* InitiateAuth throws: no attempt is opened.
InitiateAuthThrows(outcomes) ==
    /\ AwaitsInitiateAuth
    /\ ~callTaken
    /\ \E error \in InitiateErrorsOf(outcomes) :
          Resume(AfterInitiateAuth(error), NoRespondResult, error)
    /\ accounts' = IF httpRequest.op = "register"
                   THEN AccountsAfterCatch(accounts, Username)
                   ELSE accounts
    /\ UNCHANGED flowVars

\* The provider opens the attempt of an account (the attempt counter is
\* capped); the define and create triggers run next.
ProviderOpensAttempt ==
    /\ AwaitsInitiateAuth
    /\ ~callTaken
    /\ Username \in accounts
    /\ attempts < MaxAttempts
    /\ StartAttempt
    /\ callTaken' = TRUE
    /\ UNCHANGED <<httpRequest, httpResponse, providerCalls, respondResult,
                   providerError, accounts, authzVars, codecVars>>

\* The create trigger has returned the first challenge: InitiateAuth returns
\* it with its Session.
InitiateAuthAnswers ==
    /\ AwaitsInitiateAuth
    /\ callTaken
    /\ pc = "awaiting"
    /\ Resume(AfterInitiateAuth(ProviderOk), NoRespondResult, NoProviderError)
    /\ UNCHANGED <<accounts, flowVars>>

\* The handler waits for RespondToAuthChallenge.
AwaitsRespond ==
    /\ Suspended
    /\ httpRequest.op = "verify-otp"
    /\ PendingCall = "RespondToAuthChallenge"

VerifyBody ==
    [phoneNumber |-> httpRequest.phoneNumber, otp |-> httpRequest.otp,
     session |-> httpRequest.session]

ErrorOf(respond) ==
    IF respond.kind \in ProviderErrorNames
    THEN ProviderError(respond.kind, respond.message)
    ELSE NoProviderError

\* RespondToAuthChallenge throws without a trigger having run: the Session is
\* not that of the open challenge, or it has expired, or the provider fails.
RespondThrows(results) ==
    /\ AwaitsRespond
    /\ ~callTaken
    /\ \E respond \in {r \in results : r.kind \in ProviderErrorNames} :
          Resume(verifyOtp(VerifyBody, respond), respond, ErrorOf(respond))
    /\ UNCHANGED <<accounts, flowVars>>

\* The request carries the Session of the open challenge: the provider has
\* the verify trigger judge the answer it carries.
ProviderVerifies ==
    /\ AwaitsRespond
    /\ ~callTaken
    /\ httpRequest.session = Str(SessionToken(attempts, Len(session)))
    /\ VerifyAnswerStep(httpRequest.otp.text)
    /\ callTaken' = TRUE
    /\ UNCHANGED <<httpRequest, httpResponse, providerCalls, respondResult,
                   providerError, accounts, authzVars, codecVars>>

\* The provider's answers to RespondToAuthChallenge once the flow has settled:
\* an authentication result when the define trigger issued tokens,
\* NotAuthorizedException when it failed the authentication, the next
\* challenge otherwise.
FlowRespondResults(issued) ==
    IF pc = "success"
    THEN {r \in issued : r.kind = "AuthenticationResult"}
    ELSE IF pc = "failure"
    THEN {[NoRespondResult EXCEPT !.kind = "NotAuthorizedException",
                                  !.message = "provider message 1"]}
    ELSE {[NoRespondResult EXCEPT !.kind = "challenge"]}

RespondAnswers(issued) ==
    /\ AwaitsRespond
    /\ callTaken
    /\ pc \in {"awaiting", "success", "failure"}
    /\ \E respond \in FlowRespondResults(issued) :
          Resume(verifyOtp(VerifyBody, respond), respond, ErrorOf(respond))
    /\ UNCHANGED <<accounts, flowVars>>

\* InitiateAuth of the REFRESH_TOKEN_AUTH flow is answered; no trigger runs.
RefreshAnswers(results) ==
    /\ Suspended
    /\ httpRequest.op = "refresh"
    /\ \E respond \in results :
          Resume(refreshToken(httpRequest.cookies, respond), respond, ErrorOf(respond))
    /\ UNCHANGED <<accounts, flowVars>>

(***************************************************************************)
(* register, send-otp and verify-otp over every shape of phone number, up  *)
(* to the first challenge of an attempt.                                   *)
(***************************************************************************)
SendOtp == SendOtpOf(PhoneFields)

RegisterUser == RegisterUserOf(PhoneFields)

\* verify-otp with a Session the provider never issued: the provider throws.
VerifyOtp == VerifyOtpOf(VerifyOtpBodies)

AuthNext ==
    \/ SendOtp
    \/ RegisterUser
    \/ VerifyOtp
    \/ SignUpAnswers(ProviderOutcomes)
    \/ InitiateAuthThrows(ProviderOutcomes)
    \/ ProviderOpensAttempt
    \/ DefineStep
    \/ CreateStart
    \/ SnsPublishSucceeds
    \/ SnsPublishFails
    \/ InitiateAuthAnswers
    \/ RespondThrows(RespondResults)

SpecAuth == Init /\ [][AuthNext]_vars

ApiSendOtp == SendOtpOf(ApiPhoneFields)

ApiRegisterUser == RegisterUserOf(ApiPhoneFields)

\* verify-otp with a Session the provider never issued, and with the Session
\* of the open challenge and a code that was delivered.
ApiVerifyOtp == VerifyOtpOf(VerifyOtpBodies \cup LiveBodies(ValidPhone, DeliveredCodes))

RefreshToken == RefreshTokenOf(ApiCookieHeaders)

Logout == LogoutOf(ApiCookieHeaders)

GetCurrentUser == GetCurrentUserOf(ApiCookieHeaders)

ApiNext ==
    \/ ApiSendOtp
    \/ ApiRegisterUser
    \/ ApiVerifyOtp
    \/ RefreshToken
    \/ Logout
    \/ GetCurrentUser
    \/ SignUpAnswers(ApiOutcomes)
    \/ InitiateAuthThrows(ApiOutcomes)
    \/ ProviderOpensAttempt
    \/ DefineStep
    \/ CreateStart
    \/ SnsPublishSucceeds
    \/ SnsPublishFails
    \/ InitiateAuthAnswers
    \/ RespondThrows(ApiRespondResults)
    \/ ProviderVerifies
    \/ RecordRound
    \/ RespondAnswers(ApiRespondResults)
    \/ RefreshAnswers(RefreshResults)
    \/ Tick

SpecApi == Init /\ [][ApiNext]_vars

(***************************************************************************)
(* Logout next to the authorizer: a client logs out while requests with    *)
(* its cookies keep arriving at the authorizer, the clock runs and the      *)
(* provider rotates its keys.                                               *)
(***************************************************************************)
SessionCookieHeaders ==
    {<<>>,
     CookiePair(idTokenName, <<"tGood">>) \o <<";", " ">>
        \o CookiePair(refreshTokenName, <<"rT">>)}

SessionLogout == LogoutOf(SessionCookieHeaders)

\* Requests to the authorizer: without a cookie, and with the cookie of an
\* assertion that is well inside its validity, that expires at the second
\* tick, that is signed by the rotated key, that is forged.
SessionRequests ==
    {[NoHeaders EXCEPT !.present = TRUE]}
    \cup {[NoHeaders EXCEPT !.present = TRUE, !.Cookie = Str(idTokenPrefix \o <<t>>)] :
             t \in {"tGood", "tShort", "tRotated", "tForged"}}

SessionAuthorize == VerifyWithoutFetchOf(1, SessionRequests)

SessionAuthorizeSuspends == FetchSuspendsOf(1, SessionRequests)

LogoutNext ==
    \/ SessionAuthorize
    \/ SessionAuthorizeSuspends
    \/ FetchResumes(1)
    \/ FetchRejects(1)
    \/ ValidateJwtResumes(1)
    \/ HandlerResumes(1)
    \/ Tick
    \/ RotateKeys
    \/ SessionLogout

SpecLogout == Init /\ [][LogoutNext]_vars

(***************************************************************************)
(* verify-otp on top of the custom-auth flow: the client submits each      *)
(* answer through verify-otp, the provider runs the verify and define      *)
(* triggers (and the create trigger for a further challenge), and answers  *)
(* RespondToAuthChallenge with what the flow came to.                      *)
(***************************************************************************)
LoginOutcomes ==
    {ProviderOk, ProviderError("InternalErrorException", "provider message 1")}

LoginRespondResults ==
    {[kind |-> "AuthenticationResult", IdToken |-> Str(<<"tGood">>),
      RefreshToken |-> Str(<<"rT">>), message |-> ""],
     SessionExpired}

LoginRegister == RegisterUserOf({ValidPhone})

LoginSendOtp == SendOtpOf({ValidPhone})

\* The client submits an answer with the Session it holds.
SubmitOtp == VerifyOtpOf(LiveBodies(ValidPhone, DeliveredCodes \cup {NeverIssued}))

LoginNext ==
    \/ LoginRegister
    \/ LoginSendOtp
    \/ SubmitOtp
    \/ SignUpAnswers(LoginOutcomes)
    \/ InitiateAuthThrows(LoginOutcomes)
    \/ ProviderOpensAttempt
    \/ DefineStep
    \/ CreateStart
    \/ CreateRetry
    \/ SnsPublishSucceeds
    \/ SnsPublishFails
    \/ AbandonedPublishSucceeds
    \/ AbandonedPublishFails
    \/ InitiateAuthAnswers
    \/ RespondThrows(LoginRespondResults)
    \/ ProviderVerifies
    \/ RecordRound
    \/ RespondAnswers(LoginRespondResults)

SpecLogin == Init /\ [][LoginNext]_vars

(***************************************************************************)
(* Claims about the custom-auth flow.                                      *)
(***************************************************************************)
AllIncorrect(sess) == \A i \in 1..Len(sess) : sess[i].challengeResult = FALSE

\* The define trigger has decided on the current round history.
Decided == pc \in {"create", "publishing", "awaiting", "verified", "success", "failure"}

\* The define trigger has just decided: nothing has happened since.
JustDecided == pc \in {"create", "success", "failure"}

IssuesChallenge(r) ==
    /\ r.challengeName = "CUSTOM_CHALLENGE"
    /\ ~r.issueTokens
    /\ ~r.failAuthentication

\* C1: from a fresh attempt, three incorrect answers in a row end in Failure
\* on the third: after the 1st and the 2nd incorrect answer the define trigger
\* issues a challenge again, after the 3rd it sets failAuthentication, and no
\* attempt ever sees a fourth challenge.
C1_ThreeIncorrectFail ==
    /\ challengesIssued <= 3
    /\ Len(session) <= 3
    /\ (Decided /\ AllIncorrect(session)) =>
          /\ Len(session) \in {1, 2} =>
                /\ IssuesChallenge(response)
                /\ pc \in {"create", "publishing", "awaiting", "verified"}
          /\ Len(session) = 3 =>
                /\ response.failAuthentication
                /\ ~response.issueTokens
                /\ pc = "failure"

C1_Witness ==
    /\ pc = "failure"
    /\ Len(session) = 3
    /\ AllIncorrect(session)
    /\ challengesIssued = 3

\* C2: with fewer than 3 completed rounds, an answer equal to the stored code
\* is judged correct and makes the define trigger issue tokens, whatever the
\* earlier rounds of the attempt were.
C2_CorrectAnswerSucceeds ==
    /\ (pc = "verified" /\ lastAnswer = privateOtp) => answerCorrect
    /\ (JustDecided /\ Len(session) >= 1 /\ lastAnswer = privateOtp) =>
          /\ session[Len(session)].challengeResult = TRUE
          /\ response.issueTokens
          /\ ~response.failAuthentication
          /\ pc = "success"

C2_Witness ==
    /\ pc = "success"
    /\ Len(session) = 3
    /\ lastAnswer = privateOtp
    /\ session[1].challengeResult = FALSE
    /\ session[2].challengeResult = FALSE

\* C3 as stated: two create invocations on an empty round history, before
\* any answer, issue the same code.
C3_SameCodeOnEmptyHistory ==
    \A i, j \in 1..Len(creations) :
       (creations[i].round = 0 /\ creations[j].round = 0) =>
          creations[i].otp = creations[j].otp

\* C3 as amended: create invocations repeated before an answer issue the same
\* code only on a non-empty round history, where the code is the metadata of
\* the most recent round; on an empty history each invocation issues the code
\* of its own random draw.
C3_ReuseOnNonEmptyHistory ==
    /\ \A i \in 1..Len(creations) :
          creations[i].round > 0 =>
             creations[i].otp = session[creations[i].round].challengeMetadata
    /\ \A i, j \in 1..Len(creations) :
          (creations[i].round = creations[j].round /\ creations[i].round > 0) =>
             creations[i].otp = creations[j].otp
    /\ \A i \in 1..Len(creations) :
          creations[i].round = 0 =>
             \E u \in RandomDraws : creations[i].otp = generateOTP(u)

C3_Witness ==
    \E i, j \in 1..Len(creations) :
       /\ i < j
       /\ creations[i].round = 1
       /\ creations[j].round = 1
       /\ creations[1].otp # generateOTP(0)

AllDrawsSixDigits ==
    \A u \in 0..(RandomDenominator - 1) : IsSixDigitCode(generateOTP(u))

\* C4: every code the create trigger issues renders an integer of
\* 100000..999999 in decimal: exactly six digits, for every draw.
C4_SixDigitCode ==
    /\ \A i \in 1..Len(creations) : IsSixDigitCode(creations[i].otp)
    /\ pc \in {"awaiting", "verified"} => IsSixDigitCode(privateOtp)
    /\ AllDrawsSixDigits

C4_Witness ==
    /\ pc = "awaiting"
    /\ Len(session) = 1
    /\ privateOtp = generateOTP(RandomDenominator - 1)
    /\ creations[1].otp = generateOTP(0)

\* The rounds for which the create trigger was invoked in the attempt, the
\* invocations of a round and the delivery attempts they made.
CreatedRounds == {creations[i].round : i \in 1..Len(creations)}

InvocationsOf(r) == {i \in 1..Len(creations) : creations[i].round = r}

RECURSIVE DeliveriesOf(_)
DeliveriesOf(is) ==
    IF is = {} THEN 0
    ELSE LET i == CHOOSE x \in is : TRUE
         IN  Len(creations[i].published) + DeliveriesOf(is \ {i})

\* C5 as stated: every challenge-creation round makes exactly one delivery
\* attempt, never zero and never more than one.
C5_OneDeliveryPerRound ==
    \A r \in CreatedRounds : DeliveriesOf(InvocationsOf(r)) = 1

\* C5 as amended: every create invocation makes exactly one delivery attempt,
\* to the subject's phone number and with the code of that invocation, with a
\* new code and with a reused one, and whether the delivery succeeds or
\* fails.  A round has one delivery attempt for each invocation the provider
\* made for it: never zero, and more than one only when the provider gave up
\* on an invocation and invoked the trigger again.
C5_OneDeliveryPerInvocation ==
    /\ \A i \in 1..Len(creations) :
          /\ Len(creations[i].published) = 1
          /\ creations[i].published[1].PhoneNumber = phone_number
          /\ creations[i].published[1].Code = creations[i].otp
    /\ \A r \in CreatedRounds :
          /\ DeliveriesOf(InvocationsOf(r)) = Cardinality(InvocationsOf(r))
          /\ DeliveriesOf(InvocationsOf(r)) >= 1
          /\ DeliveriesOf(InvocationsOf(r)) > 1 =>
                \E i \in InvocationsOf(r) : creations[i].status = "timedOut"

\* The first round was delivered once, and a later round, with the reused
\* code, had two invocations: the delivery of the one the provider gave up on
\* arrived, the delivery of the second failed.
C5_Witness ==
    /\ Len(creations) = 3
    /\ creations[1].round = 0
    /\ creations[1].delivery = "ok"
    /\ creations[2].round = 1
    /\ creations[2].status = "timedOut"
    /\ creations[2].delivery = "ok"
    /\ creations[3].round = 1
    /\ creations[3].delivery = "failed"
    /\ creations[3].otp = creations[1].otp

\* The challenge of the round of invocation i is open to the client.
OpenRoundOf(i) ==
    pc \in {"awaiting", "verified"} /\ creations[i].round = Len(session)

\* C6 as stated: a failed delivery never makes challenge creation fail, and
\* the code of every invocation whose delivery failed is the private answer
\* of its round, so that answering it is judged correct and leads to Success.
C6_FailedDeliveryCodeIsAnswer ==
    /\ pc # "error"
    /\ \A i \in 1..Len(creations) :
          creations[i].delivery = "failed" =>
             /\ creations[i].status # "threw"
             /\ OpenRoundOf(i) => privateOtp = creations[i].otp
             /\ (pc = "verified" /\ OpenRoundOf(i) /\ lastAnswer = creations[i].otp)
                   => answerCorrect

\* C6 as amended: a failed delivery never makes challenge creation fail.  The
\* invocation the provider waits for returns, its code is the private answer
\* of the round, and answering that code is judged correct and leads to
\* Success.  An invocation the provider gave up on ends without an error too
\* when its delivery fails afterwards, but the provider takes nothing from
\* it: the private answer of the round is the code of the invocation that
\* replaced it.
C6_DeliveryFailureSwallowed ==
    /\ pc # "error"
    /\ \A i \in 1..Len(creations) :
          creations[i].delivery = "failed" =>
             /\ creations[i].status \in {"returned", "timedOut"}
             /\ creations[i].status = "timedOut" => i < Len(creations)
    /\ pc \in {"awaiting", "verified"} =>
          /\ creations[Len(creations)].status = "returned"
          /\ privateOtp = creations[Len(creations)].otp
    /\ (JustDecided /\ Len(session) >= 1
          /\ creations[Len(creations)].delivery = "failed"
          /\ lastAnswer = creations[Len(creations)].otp) => pc = "success"

\* The provider gave up on the first invocation and its delivery failed
\* afterwards; the delivery of the second failed as well, and the client,
\* answering the code of the second, reached Success.
C6_Witness ==
    /\ pc = "success"
    /\ Len(creations) = 2
    /\ creations[1].status = "timedOut"
    /\ creations[1].delivery = "failed"
    /\ creations[2].delivery = "failed"
    /\ creations[1].otp # creations[2].otp
    /\ lastAnswer = creations[2].otp

\* C7 as stated: the create trigger responds without waiting for the delivery
\* call, so a delivery call that has not completed never holds the response.
C7_RespondsWithoutWaiting ==
    \A i \in 1..Len(creations) :
       creations[i].delivery = "pending" => creations[i].status = "returned"

\* C7 as amended: the create trigger awaits the delivery call: a response is
\* produced only once the call has settled (delivered or failed), and while it
\* is pending the challenge is not open to the client.
C7_RespondsAfterDeliverySettles ==
    /\ \A i \in 1..Len(creations) :
          creations[i].status = "returned" => creations[i].delivery \in {"ok", "failed"}
    /\ \A i \in 1..Len(creations) :
          creations[i].delivery = "pending" => creations[i].status \in {"running", "timedOut"}
    /\ (Len(creations) > 0 /\ creations[Len(creations)].delivery = "pending") =>
          pc = "publishing"

C7_Witness ==
    /\ pc = "awaiting"
    /\ Len(creations) = 2
    /\ creations[1].delivery = "pending"
    /\ creations[1].status = "timedOut"
    /\ creations[2].status = "returned"

\* C9: the verify trigger reports correct exactly when the submitted answer
\* equals the stored private answer, and it changes nothing else of the attempt.
C9_VerifyExactEquality ==
    /\ [](pc = "verified" => (answerCorrect <=> (lastAnswer = privateOtp)))
    /\ [][(pc = "awaiting" /\ pc' = "verified") =>
             /\ answerCorrect' <=> (lastAnswer' = privateOtp)
             /\ UNCHANGED <<attempts, session, response, privateOtp,
                            challengeMetadata, creations, challengesIssued>>]_vars

C9_Witness ==
    /\ pc = "verified"
    /\ ~answerCorrect
    /\ lastAnswer # privateOtp
    /\ Trim(lastAnswer) = privateOtp

(***************************************************************************)
(* Claims about the auth lambda.                                           *)
(***************************************************************************)
\* E.164 as the specification words it: `+`, then 2 to 15 digits, the first of
\* which is not zero.
WellFormedE164(s) ==
    /\ Len(s) >= 1
    /\ s[1] = "+"
    /\ Len(s) - 1 >= 2
    /\ Len(s) - 1 <= 15
    /\ \A i \in 2..Len(s) : s[i] \in DigitSet
    /\ s[2] # "0"

MalformedOrMissing(v) == ~v.present \/ ~WellFormedE164(v.text)

\* C8: send-otp and register answer a malformed or missing phone number with
\* 400 before the first round begins: no provider call is made, and no attempt
\* is opened, so no code is generated and no message is sent.
C8_MalformedPhoneRejected ==
    /\ []((httpRequest.op \in {"send-otp", "register"}
             /\ MalformedOrMissing(httpRequest.phoneNumber)) =>
                /\ httpResponse.statusCode = 400
                /\ providerCalls = <<>>
                /\ ~httpResponse.session)
    /\ [][(httpRequest'.op \in {"send-otp", "register"}
             /\ MalformedOrMissing(httpRequest'.phoneNumber)) =>
                UNCHANGED flowVars]_vars

C8_Witness ==
    /\ httpRequest.op = "register"
    /\ httpRequest.phoneNumber = Str(<<"+", "1">> \o Repeat("2", 15))
    /\ httpResponse.statusCode = 400
    /\ providerCalls = <<>>
    /\ attempts = 1

(***************************************************************************)
(* Claims about the authorizer.                                            *)
(***************************************************************************)
\* sub occurs in s as a run of consecutive characters.
ContainsText(s, sub) ==
    \E i \in 1..(Len(s) - Len(sub) + 1) : SubSeq(s, i, i + Len(sub) - 1) = sub

\* The request carries an idToken cookie in one of its cookie headers.
CarriesIdTokenCookie(headers) ==
    /\ headers.present
    /\ \E field \in {headers.Cookie, headers.cookie} :
          field.present /\ ContainsText(field.text, idTokenPrefix)

\* Verify succeeds on a token: its key id is in the key set, the signature is
\* an RS256 signature by that key, the issuer is the configured one and the
\* token has not expired at the time of the request.
VerifySucceeds(tok, keys, nowMs) ==
    /\ tok.wellFormed
    /\ \E key \in keys :
          /\ key.kid = tok.kid
          /\ tok.alg = "RS256"
          /\ tok.sig = [alg |-> "RS256", key |-> key.material]
    /\ tok.iss = ExpectedIssuer
    /\ (nowMs \div 1000) < tok.exp

\* C10: the authorizer allows only when an idToken cookie was extracted from
\* the request and Verify succeeded on it; every other request is denied, the
\* one whose cookie header carries refreshToken alone included.
C10_AllowOnlyVerifiedIdToken ==
    /\ authzResult.outcome \in {"none", "Allow", "Unauthorized"}
    /\ authzResult.outcome = "Allow" =>
          /\ CarriesIdTokenCookie(authzRequest)
          /\ ExtractedToken[authzRequest].present
          /\ VerifySucceeds(jwtDecode(ExtractedToken[authzRequest].text),
                            jwksCache.keys, authzResult.nowMs)
    /\ (authzResult.outcome # "none" /\ ~CarriesIdTokenCookie(authzRequest)) =>
          /\ authzResult.outcome = "Unauthorized"
          /\ authzResult.logged = "No authentication token provided"

C10_Witness ==
    /\ authzResult.outcome = "Allow"
    /\ authzRequest.Cookie =
          Str(refreshTokenPrefix \o <<"rT", ";", " ">> \o idTokenPrefix \o <<"tGood">>)
    /\ now = 1

\* The identity assertion of the last request as the authorizer extracted it.
ExtractedAssertion == jwtDecode(ExtractedToken[authzRequest].text)

\* The key sets and the times of the model.
KeySets == SUBSET {Key1, Key2}

\* C11: Verify rejects every token whose algorithm is not RS256, `none`
\* included, even when all its claims are valid: no key set and no time make
\* validation succeed on it, and a request carrying it is never allowed.
C11_RejectsNonRS256 ==
    /\ \A atom \in TokenAtoms, keys \in KeySets, k \in 0..MaxTicks :
          TokenOf(atom).alg # "RS256" => validateJwt(<<atom>>, keys, NowMs(k)) # "ok"
    /\ (authzResult.outcome # "none"
          /\ ExtractedToken[authzRequest].present
          /\ ExtractedAssertion.wellFormed
          /\ ExtractedAssertion.alg # "RS256") =>
             /\ authzResult.outcome = "Unauthorized"
             /\ authzResult.principalId = ""
             /\ authzResult.context = NoContext

C11_Witness ==
    /\ authzRequest.Cookie = Str(idTokenPrefix \o <<"tNone">>)
    /\ authzResult.outcome = "Unauthorized"
    /\ authzResult.logged = "jwt signature is required"
    /\ Key1 \in jwksCache.keys
    /\ ExtractedAssertion.iss = ExpectedIssuer
    /\ (authzResult.nowMs \div 1000) < ExtractedAssertion.exp

\* C12: Verify rejects every token whose issuer is not exactly the configured
\* provider endpoint, also when it is signed by a key of the cached key set
\* and has not expired.
C12_RejectsForeignIssuer ==
    /\ \A atom \in TokenAtoms, keys \in KeySets, k \in 0..MaxTicks :
          TokenOf(atom).iss # ExpectedIssuer =>
             validateJwt(<<atom>>, keys, NowMs(k)) # "ok"
    /\ (authzResult.outcome # "none"
          /\ ExtractedToken[authzRequest].present
          /\ ExtractedAssertion.wellFormed
          /\ ExtractedAssertion.iss # ExpectedIssuer) =>
             /\ authzResult.outcome = "Unauthorized"
             /\ authzResult.principalId = ""
             /\ authzResult.context = NoContext

C12_Witness ==
    /\ authzRequest.Cookie = Str(idTokenPrefix \o <<"tWrongIss">>)
    /\ authzResult.outcome = "Unauthorized"
    /\ authzResult.logged = "jwt issuer invalid"
    /\ \E key \in jwksCache.keys :
          /\ key.kid = ExtractedAssertion.kid
          /\ ExtractedAssertion.sig = [alg |-> "RS256", key |-> key.material]
    /\ (authzResult.nowMs \div 1000) < ExtractedAssertion.exp

\* C13: every failing request gives the caller the same outcome, the error
\* `Unauthorized` with no principal and no context, whatever the reason; the
\* reason is only logged.
C13_FailuresIndistinguishable ==
    authzResult.outcome \notin {"none", "Allow"} =>
       /\ authzResult.outcome = "Unauthorized"
       /\ authzResult.principalId = ""
       /\ authzResult.context = NoContext
       /\ authzResult.logged \in
             {"No authentication token provided", "JWKS fetch failed",
              "Invalid token format", "No kid found in token header",
              "Public key not found in JWKS", "jwt signature is required",
              "invalid algorithm", "invalid signature", "jwt expired",
              "jwt issuer invalid"}

C13_Witness ==
    /\ authzResult.outcome = "Unauthorized"
    /\ authzResult.logged = "jwt expired"
    /\ authzRequest.Cookie = Str(idTokenPrefix \o <<"tShort">>)

\* C14 as stated: the identity assertion is that of the bearer header when the
\* request has one and that of the idToken cookie otherwise, and the request
\* is allowed exactly when Verify succeeds on it (the key set being at hand).
C14_BearerHeaderFirst ==
    LET assertion == OrElse(BearerToken(authzRequest), ExtractedToken[authzRequest])
    IN  (authzResult.outcome # "none"
           /\ assertion.present
           /\ jwksCache.present
           /\ (authzResult.nowMs - jwksCache.time) < JWKS_CACHE_DURATION) =>
              (authzResult.outcome = "Allow" <=>
                  VerifySucceeds(jwtDecode(assertion.text), jwksCache.keys,
                                 authzResult.nowMs))

\* The idToken cookie of a request, read from its cookie header alone.
CookieAssertion(headers) ==
    extractCookie(OrElse(headers.Cookie, OrElse(headers.cookie, Str(<<>>))).text,
                  idTokenName)

\* C14 as amended: the authorizer takes the identity assertion from the
\* idToken cookie alone and never reads a bearer header: a request carrying a
\* valid assertion only in the bearer header is denied for want of a token,
\* and with both, the cookie's assertion decides.
C14_CookieOnly ==
    (authzResult.outcome # "none" /\ BearerToken(authzRequest).present) =>
       /\ ~CarriesIdTokenCookie(authzRequest) =>
             /\ authzResult.outcome = "Unauthorized"
             /\ authzResult.logged = "No authentication token provided"
       /\ (CarriesIdTokenCookie(authzRequest)
             /\ jwksCache.present
             /\ (authzResult.nowMs - jwksCache.time) < JWKS_CACHE_DURATION) =>
                (authzResult.outcome = "Allow" <=>
                    VerifySucceeds(jwtDecode(CookieAssertion(authzRequest).text),
                                   jwksCache.keys, authzResult.nowMs))

C14_Witness ==
    /\ authzRequest = [NoHeaders EXCEPT !.present = TRUE,
                                       !.Authorization = Str(BearerPrefix \o <<"tGood">>)]
    /\ authzResult.outcome = "Unauthorized"
    /\ jwksCache.present
    /\ (authzResult.nowMs - jwksCache.time) < JWKS_CACHE_DURATION
    /\ VerifySucceeds(jwtDecode(BearerToken(authzRequest).text), jwksCache.keys,
                      authzResult.nowMs)

ContextKeys == {"userId", "phoneNumber", "email", "name", "role", "company"}

\* C15 as stated: an Allow decision carries a context of exactly the six keys,
\* each the text of its claim and the empty text for a claim the token lacks.
C15_EmptyStringWhenAbsent ==
    authzResult.outcome = "Allow" =>
       /\ DOMAIN authzResult.context = ContextKeys
       /\ authzResult.context.userId = ExtractedAssertion.sub
       /\ authzResult.context.phoneNumber = ExtractedAssertion.phone_number
       /\ authzResult.context.email = ExtractedAssertion.email
       /\ authzResult.context.name = ExtractedAssertion.name
       /\ authzResult.context.role = ExtractedAssertion.role
       /\ authzResult.context.company = ExtractedAssertion.company

\* C15 as amended: an Allow decision carries a context of exactly the six
\* keys, each the text of its claim; for a claim the token lacks the value is
\* the empty text, except role, whose value is then `user`.
C15_RoleDefaultsToUser ==
    authzResult.outcome = "Allow" =>
       /\ DOMAIN authzResult.context = ContextKeys
       /\ authzResult.context.userId = ExtractedAssertion.sub
       /\ authzResult.context.phoneNumber = ExtractedAssertion.phone_number
       /\ authzResult.context.email = ExtractedAssertion.email
       /\ authzResult.context.name = ExtractedAssertion.name
       /\ authzResult.context.role =
             (IF ExtractedAssertion.role = "" THEN "user" ELSE ExtractedAssertion.role)
       /\ authzResult.context.company = ExtractedAssertion.company
       /\ authzResult.principalId = ExtractedAssertion.sub

C15_Witness ==
    /\ authzResult.outcome = "Allow"
    /\ authzRequest.Cookie = Str(idTokenPrefix \o <<"tBare">>)
    /\ authzResult.context.role = "user"
    /\ authzResult.context.phoneNumber = ""
    /\ authzResult.context.company = ""

(***************************************************************************)
(* Claims about the cookie codec.                                          *)
(***************************************************************************)
\* Position of the first occurrence of the text sep in s, 0 when there is none.
IndexOfText(s, sep) ==
    IF ContainsText(s, sep)
    THEN CHOOSE i \in 1..(Len(s) - Len(sep) + 1) :
            /\ SubSeq(s, i, i + Len(sep) - 1) = sep
            /\ \A j \in 1..(i - 1) : SubSeq(s, j, j + Len(sep) - 1) # sep
    ELSE 0

RECURSIVE SplitOn(_, _)
SplitOn(s, sep) ==
    LET i == IndexOfText(s, sep)
    IN  IF i = 0 THEN <<s>>
        ELSE <<SubSeq(s, 1, i - 1)>> \o SplitOn(SubSeq(s, i + Len(sep), Len(s)), sep)

\* The decimal number a text of digits spells.
RECURSIVE StringToNumber(_)
StringToNumber(s) ==
    IF Len(s) = 0 THEN 0
    ELSE 10 * StringToNumber(SubSeq(s, 1, Len(s) - 1))
         + (CHOOSE d \in 0..9 : Digits[d + 1] = s[Len(s)])

\* The cookies of the rendered text, and the parts of one cookie: its
\* name=value pair first, then its attributes.
RenderedCookies == SplitOn(setCookie, <<",", " ">>)

CookieParts(cookie) == MapTrim(Split(cookie, ";"))

HasAttribute(cookie, attr) ==
    \E i \in 2..Len(CookieParts(cookie)) : CookieParts(cookie)[i] = attr

MaxAgePrefix == <<"M", "a", "x", "-", "A", "g", "e", "=">>

MaxAges(cookie) ==
    {StringToNumber(SubSeq(CookieParts(cookie)[i], Len(MaxAgePrefix) + 1,
                           Len(CookieParts(cookie)[i]))) :
        i \in {j \in 2..Len(CookieParts(cookie)) :
                  StartsWith(CookieParts(cookie)[j], MaxAgePrefix)}}

\* C16: every cookie the codec renders, issued or expired, in production and
\* in development, carries HttpOnly, SameSite=Lax and Path=/; an issued
\* idToken cookie has Max-Age=3600 and an issued refreshToken cookie
\* Max-Age=604800, so the idToken cookie has the strictly shorter lifetime.
C16_CookieAttributes ==
    renderCall.fn # "none" =>
       /\ Len(RenderedCookies) = 2
       /\ \A i \in 1..Len(RenderedCookies) :
             /\ HasAttribute(RenderedCookies[i], <<"H", "t", "t", "p", "O", "n", "l", "y">>)
             /\ HasAttribute(RenderedCookies[i], <<"S", "a", "m", "e", "S", "i", "t", "e", "=", "L", "a", "x">>)
             /\ HasAttribute(RenderedCookies[i], <<"P", "a", "t", "h", "=", "/">>)
       /\ CookieParts(RenderedCookies[1])[1] = idTokenName \o <<"=">> \o renderCall.idToken
       /\ CookieParts(RenderedCookies[2])[1] =
             refreshTokenName \o <<"=">> \o renderCall.refreshToken
       /\ renderCall.fn = "createAuthCookies" =>
             /\ MaxAges(RenderedCookies[1]) = {3600}
             /\ MaxAges(RenderedCookies[2]) = {604800}
             /\ \A x \in MaxAges(RenderedCookies[1]), y \in MaxAges(RenderedCookies[2]) :
                   x < y
       /\ renderCall.fn = "clearAuthCookies" =>
             /\ MaxAges(RenderedCookies[1]) = {0}
             /\ MaxAges(RenderedCookies[2]) = {0}

C16_Witness ==
    /\ renderCall = [fn |-> "createAuthCookies", idToken |-> <<"tGood">>,
                     refreshToken |-> <<"rT">>]
    /\ ENVIRONMENT = "dev"
    /\ MaxAges(RenderedCookies[1]) = {3600}
    /\ HasAttribute(RenderedCookies[2], <<"H", "t", "t", "p", "O", "n", "l", "y">>)

\* C17: the rendered cookies both carry Secure when the environment is
\* production and neither carries it otherwise, for all credential values.
C17_SecureOnlyInProduction ==
    renderCall.fn = "createAuthCookies" =>
       /\ Len(RenderedCookies) = 2
       /\ \A i \in 1..Len(RenderedCookies) :
             HasAttribute(RenderedCookies[i], <<"S", "e", "c", "u", "r", "e">>) <=> (ENVIRONMENT = "prod")

C17_Witness ==
    /\ renderCall.fn = "createAuthCookies"
    /\ renderCall.idToken = <<"tBare">>
    /\ ENVIRONMENT = "prod"
    /\ HasAttribute(RenderedCookies[1], <<"S", "e", "c", "u", "r", "e">>)
    /\ HasAttribute(RenderedCookies[2], <<"S", "e", "c", "u", "r", "e">>)

\* A credential value free of `;`, `=`, `,` and blanks.
CleanCredential(v) == \A i \in 1..Len(v) : v[i] \notin {";", "=", ",", " "}

\* C18 as stated: for credential values a and b free of `;` and `=`, Extract
\* applied to what Render(a, b, false) returned gives a for idToken and b for
\* refreshToken.
C18_RoundTrip ==
    (extraction.fn = "extractCookie"
       /\ renderCall.fn = "createAuthCookies"
       /\ ENVIRONMENT # "prod"
       /\ extraction.cookieHeader = setCookie
       /\ CleanCredential(renderCall.idToken)
       /\ CleanCredential(renderCall.refreshToken)) =>
          /\ extraction.name = idTokenName => extraction.value = Str(renderCall.idToken)
          /\ extraction.name = refreshTokenName =>
                extraction.value = Str(renderCall.refreshToken)

\* Extract as the specification words it: the first trimmed segment whose text
\* before its first `=` is the name, and everything after that `=`.
ExtractWhole(cookieHeader, name) ==
    LET segments == MapTrim(Split(cookieHeader, ";"))
        matches(seg) == IndexOf(seg, "=") > 0
                           /\ SubSeq(seg, 1, IndexOf(seg, "=") - 1) = name
    IN  IF \E i \in 1..Len(segments) : matches(segments[i])
        THEN LET k == CHOOSE i \in 1..Len(segments) :
                         /\ matches(segments[i])
                         /\ \A j \in 1..(i - 1) : ~matches(segments[j])
             IN  Str(SubSeq(segments[k], IndexOf(segments[k], "=") + 1,
                            Len(segments[k])))
        ELSE Absent

\* C19 as stated: Extract returns the whole text after the first `=` of the
\* first segment named as requested, also when that text holds `=`, and
\* absence without such a segment.
C19_ValueAfterFirstEquals ==
    extraction.fn = "extractCookie" =>
       extraction.value = ExtractWhole(extraction.cookieHeader, extraction.name)

(***************************************************************************)
(* Claims about verify-otp.                                                *)
(***************************************************************************)
\* C20 as stated: when the provider answers a submitted code with an
\* authentication result holding both credentials, the response is a 200 with
\* two Set-Cookie header values, one for idToken with Max-Age=3600 and one for
\* refreshToken with Max-Age=604800, and a body with success true and the
\* user record of the identity assertion.
C20_TwoSetCookieValues ==
    (httpRequest.op = "verify-otp"
       /\ respondResult.kind = "AuthenticationResult"
       /\ respondResult.IdToken.present
       /\ respondResult.RefreshToken.present) =>
          /\ httpResponse.statusCode = 200
          /\ httpResponse.success
          /\ httpResponse.user = parseIdToken(respondResult.IdToken.text).user
          /\ Len(httpResponse.setCookie) = 2
          /\ CookieParts(httpResponse.setCookie[1])[1] =
                idTokenName \o <<"=">> \o respondResult.IdToken.text
          /\ MaxAges(httpResponse.setCookie[1]) = {3600}
          /\ CookieParts(httpResponse.setCookie[2])[1] =
                refreshTokenName \o <<"=">> \o respondResult.RefreshToken.text
          /\ MaxAges(httpResponse.setCookie[2]) = {604800}

(***************************************************************************)
(* Claims about refresh, logout, get-current-user and the error answers.   *)
(***************************************************************************)
\* C21: logout always answers 200 with two Set-Cookie header values, the
\* idToken and the refreshToken cookie, each with an empty value and
\* Max-Age=0, and a body with success true, whatever cookies the request
\* carried.
C21_LogoutClearsBothCookies ==
    httpRequest.op = "logout" =>
       /\ httpResponse.statusCode = 200
       /\ httpResponse.success
       /\ Len(httpResponse.setCookie) = 2
       /\ CookieParts(httpResponse.setCookie[1])[1] = idTokenName \o <<"=">>
       /\ MaxAges(httpResponse.setCookie[1]) = {0}
       /\ CookieParts(httpResponse.setCookie[2])[1] = refreshTokenName \o <<"=">>
       /\ MaxAges(httpResponse.setCookie[2]) = {0}

\* C22: logout revokes nothing.  A logout step sends no command to the
\* provider and changes neither the provider's flow state nor anything the
\* authorizer decides from (clock, published keys, cached key set), so the
\* authorizer's decision on every request is the same after the logout as
\* before it: an assertion allowed before is allowed after, until it expires.
AuthorizerDecision(headers, fetchOutcome, cache, tick, keys) ==
    authorizerHandler(headers, cache, NowMs(tick), fetchOutcome, keys).outcome

C22_LogoutRevokesNothing ==
    [][SessionLogout =>
          /\ providerCalls' = <<>>
          /\ UNCHANGED <<flowVars, authzVars>>
          /\ \A headers \in SessionRequests, fetchOutcome \in {"ok", "failed"} :
                AuthorizerDecision(headers, fetchOutcome, jwksCache', now', providerKeys')
                   = AuthorizerDecision(headers, fetchOutcome, jwksCache, now,
                                        providerKeys)]_vars

\* The client has logged out with its cookies, time has passed, and the
\* authorizer allows a request that carries the same assertion.
C22_Witness ==
    /\ httpRequest.op = "logout"
    /\ extractCookie(httpRequest.cookies, idTokenName) = Str(<<"tGood">>)
    /\ now > 0
    /\ authzResult.outcome = "Allow"
    /\ authzResult.nowMs = NowMs(now)
    /\ extractTokenFromCookies(authzRequest) = Str(<<"tGood">>)

\* C23: refresh answers 401 and sets no cookie whenever the request carries
\* no renewal credential or the provider rejects the one it carries; without
\* a credential the provider is not called, and after a rejection it is not
\* called a second time.
C23_RefreshFailureIs401 ==
    httpRequest.op = "refresh" =>
       /\ Falsy(extractCookie(httpRequest.cookies, refreshTokenName)) =>
             /\ httpResponse.statusCode = 401
             /\ httpResponse.setCookie = <<>>
             /\ providerCalls = <<>>
       /\ providerError.name # "none" =>
             /\ httpResponse.statusCode = 401
             /\ httpResponse.setCookie = <<>>
             /\ providerCalls = <<"InitiateAuth">>

\* The provider has rejected the renewal credential of a refresh request.
C23_Witness ==
    /\ httpRequest.op = "refresh"
    /\ extractCookie(httpRequest.cookies, refreshTokenName) = Str(<<"rT">>)
    /\ providerError.name = "NotAuthorizedException"
    /\ httpResponse.statusCode = 401

\* A refresh request without a renewal credential has been answered.
C23_MissingCredentialAnswered ==
    /\ httpRequest.op = "refresh"
    /\ httpRequest.cookies = <<>>
    /\ httpResponse.statusCode = 401

\* The cookies of the response: the parts of its Set-Cookie value between
\* `, `, and the name=value pair of the second one.
ResponseCookies == SplitOn(httpResponse.setCookie[1], <<",", " ">>)

RefreshCookiePair == CookieParts(ResponseCookies[2])[1]

RefreshSucceeded ==
    /\ httpRequest.op = "refresh"
    /\ httpResponse.statusCode = 200

\* C24 (as stated): on a successful refresh the refreshToken cookie carries
\* the provider's new renewal credential when its response includes one, and
\* the credential read from the request only otherwise.
C24_NewCredentialWhenIssued ==
    RefreshSucceeded =>
       /\ Len(ResponseCookies) = 2
       /\ RefreshCookiePair =
             refreshTokenName \o <<"=">>
                \o (IF Falsy(respondResult.RefreshToken)
                    THEN extractCookie(httpRequest.cookies, refreshTokenName).text
                    ELSE respondResult.RefreshToken.text)

\* C24 (amended): on a successful refresh the refreshToken cookie carries the
\* renewal credential the handler read from the request's cookie, whether or
\* not the provider's response includes a new one.
C24_OriginalCredentialKept ==
    RefreshSucceeded =>
       /\ Len(ResponseCookies) = 2
       /\ RefreshCookiePair =
             refreshTokenName \o <<"=">>
                \o extractCookie(httpRequest.cookies, refreshTokenName).text
       /\ CookieParts(ResponseCookies[1])[1] =
             idTokenName \o <<"=">> \o respondResult.IdToken.text

\* A refresh has succeeded with a response that includes a new credential.
C24_Witness ==
    /\ RefreshSucceeded
    /\ extractCookie(httpRequest.cookies, refreshTokenName) = Str(<<"rT">>)
    /\ respondResult.RefreshToken = Str(<<"rN">>)

\* A provider call of a register, send-otp or verify-otp request has failed.
ProviderFailed ==
    /\ httpRequest.op \in {"register", "send-otp", "verify-otp"}
    /\ providerError.name # "none"

\* The one table of the error taxonomy.
StatusOfErrorKind(name) ==
    CASE name = "UserNotFoundException"   -> 404
      [] name = "CodeMismatchException"   -> 401
      [] name = "NotAuthorizedException"  -> 401
      [] name = "UsernameExistsException" -> 409
      [] OTHER                            -> 500

\* The table each operation applies: the one kind it expects, 500 otherwise.
StatusOfErrorKindIn(op, name) ==
    CASE op = "register" /\ name = "UsernameExistsException" -> 409
      [] op = "send-otp" /\ name = "UserNotFoundException"   -> 404
      [] op = "verify-otp" /\ name \in {"CodeMismatchException",
                                        "NotAuthorizedException"} -> 401
      [] OTHER -> 500

\* C25 (as stated): for register, send-otp and verify-otp a provider
\* failure is answered by its error kind alone: user-not-found 404,
\* code-mismatch or not-authorized 401, username-exists 409, any other 500.
C25_StatusByErrorKind ==
    ProviderFailed => httpResponse.statusCode = StatusOfErrorKind(providerError.name)

\* C25 (amended): a provider failure is answered by operation and error
\* kind: register answers 409 for username-exists, send-otp 404 for
\* user-not-found, verify-otp 401 for code-mismatch or not-authorized, and
\* each answers 500 for every other kind.
C25_StatusByOperationAndErrorKind ==
    ProviderFailed =>
       httpResponse.statusCode = StatusOfErrorKindIn(httpRequest.op, providerError.name)

\* send-otp has met a kind of provider error it does not expect.
C25_Witness ==
    /\ ProviderFailed
    /\ httpRequest.op = "send-otp"
    /\ providerError.name = "NotAuthorizedException"
    /\ httpResponse.statusCode = 500

\* C26 (as stated): whenever send-otp answers 404 or register answers 409,
\* no provider call was made during that request.
C26_NotFoundAndConflictAreLocal ==
    (\/ httpRequest.op = "send-otp" /\ httpResponse.statusCode = 404
     \/ httpRequest.op = "register" /\ httpResponse.statusCode = 409)
       => providerCalls = <<>>

\* C26 (amended): send-otp answers 404 and register answers 409 only after
\* the provider was called and threw: 404 after the one InitiateAuth call
\* threw user-not-found, 409 after SignUp, or InitiateAuth following it,
\* threw username-exists.  Only the 400 of input validation is answered
\* without a provider call.
C26_NotFoundAndConflictAreProviderAnswers ==
    /\ (httpRequest.op = "send-otp" /\ httpResponse.statusCode = 404) =>
          /\ providerCalls = <<"InitiateAuth">>
          /\ providerError.name = "UserNotFoundException"
    /\ (httpRequest.op = "register" /\ httpResponse.statusCode = 409) =>
          /\ providerCalls \in {<<"SignUp">>, <<"SignUp", "InitiateAuth">>}
          /\ providerError.name = "UsernameExistsException"
    /\ (httpRequest.op \in {"send-otp", "register"} /\ providerCalls = <<>>) =>
          httpResponse.statusCode = 400

\* register has answered 409 to a well-formed request.
C26_Witness ==
    /\ httpRequest.op = "register"
    /\ httpResponse.statusCode = 409
    /\ providerCalls = <<"SignUp">>

\* send-otp has answered 404.
C26_NotFoundAnswered ==
    /\ httpRequest.op = "send-otp"
    /\ httpResponse.statusCode = 404

\* C27: no response body contains text taken from a provider exception: the
\* fields of the body never hold the message the provider's error carried,
\* so two requests that differ only in that message get the same response.
C27_NoProviderTextInBody ==
    /\ httpResponse.error \notin RawMessages
    /\ httpResponse.message \notin RawMessages
    /\ providerError.name # "none" => httpResponse.message # providerError.message

Answered == httpResponse.statusCode # 0

\* The requests whose 200 body is built with `success: true`.
CompletesSession ==
    \/ httpRequest.op \in {"refresh", "logout", "me"}
    \/ httpRequest.op = "verify-otp" /\ respondResult.kind = "AuthenticationResult"

\* The answers of the catch-all branches, built with the caught error's message.
CatchAllAnswer ==
    \/ httpResponse.statusCode = 500
    \/ httpRequest.op = "refresh"
          /\ httpResponse.error = "Invalid or expired refresh token"
    \/ httpRequest.op = "me" /\ httpResponse.error = "Invalid token"

\* C28 (as stated): every 200 body has success true, and every failure body
\* has both an error and a message field.
C28_UniformEnvelope ==
    Answered =>
       IF httpResponse.statusCode = 200
       THEN httpResponse.success
       ELSE httpResponse.error # "none" /\ httpResponse.message # "none"

\* C28 (amended): a 200 body has success true exactly when it completes or
\* reads a session (verify-otp with an authentication result, refresh,
\* logout, get-current-user); the 200 bodies of register, send-otp and of a
\* verify-otp that meets a further challenge carry message, session and
\* challenge name and no success field.  Every failure body has an error
\* field; it has a message field exactly in the catch-all answers.
C28_EnvelopeByBranch ==
    Answered =>
       IF httpResponse.statusCode = 200
       THEN /\ httpResponse.error = "none"
            /\ httpResponse.success <=> CompletesSession
            /\ ~httpResponse.success =>
                  httpResponse.session /\ httpResponse.message # "none"
       ELSE /\ httpResponse.error # "none"
            /\ ~httpResponse.success
            /\ httpResponse.message # "none" <=> CatchAllAnswer

\* send-otp has answered 200: message and session, no success field.
C28_Witness ==
    /\ httpRequest.op = "send-otp"
    /\ httpResponse.statusCode = 200
    /\ ~httpResponse.success

\* A failure has been answered with an error field alone.
C28_ErrorOnlyAnswered ==
    /\ httpResponse.statusCode = 404
    /\ httpResponse.message = "none"

\* The response in hand answers the submission of round k of the attempt,
\* and that submission was incorrect.
IncorrectSubmissionAnswered(k) ==
    /\ httpRequest.op = "verify-otp"
    /\ Answered
    /\ httpRequest.session = Str(SessionToken(attempts, k - 1))
    /\ Len(session) >= k
    /\ ~session[k].challengeResult

\* C29 (as stated): every incorrect code submitted through verify-otp is
\* answered 401, on the first and second incorrect submission as well as on
\* the third.
C29_EveryIncorrectCodeIs401 ==
    \A k \in 1..3 : IncorrectSubmissionAnswered(k) => httpResponse.statusCode = 401

\* C29 (amended): the first and the second incorrect submission of an
\* attempt are answered 200 with the next challenge (message, session and
\* challenge name; no success field, no cookie); only the third, on which
\* the provider fails the authentication, is answered 401.
C29_OnlyThirdIncorrectCodeIs401 ==
    \A k \in 1..3 :
       IncorrectSubmissionAnswered(k) =>
          IF k < 3
          THEN /\ httpResponse.statusCode = 200
               /\ httpResponse.message = "Additional challenge required"
               /\ httpResponse.session
               /\ ~httpResponse.success
               /\ httpResponse.setCookie = <<>>
          ELSE /\ httpResponse.statusCode = 401
               /\ httpResponse.error = "Invalid OTP code"
               /\ httpResponse.setCookie = <<>>

\* The first incorrect submission of an attempt has been answered.
C29_Witness ==
    /\ IncorrectSubmissionAnswered(1)
    /\ httpResponse.statusCode = 200

\* The third incorrect submission of an attempt has been answered.
C29_ThirdAnswered ==
    /\ IncorrectSubmissionAnswered(3)
    /\ httpResponse.statusCode = 401

\* The assertion a get-current-user request carried in its idToken cookie.
MeAssertion == ExtractWhole(httpRequest.cookies, idTokenName)

MeAssertionVerifies ==
    /\ MeAssertion.present
    /\ VerifySucceeds(jwtDecode(MeAssertion.text), providerKeys, httpRequest.time)

\* C30: get-current-user answers 401 for a missing, bad (wrong signature,
\* algorithm or issuer) or expired assertion, and returns a user record only
\* for an assertion that passes verification at the time of the request.
C30_MeRequiresVerifiedAssertion ==
    (httpRequest.op = "me" /\ ~MeAssertionVerifies) =>
       /\ httpResponse.statusCode = 401
       /\ httpResponse.user = NoUser

(***************************************************************************)
(* Claims about expired sessions, the key-set cache, the code of an        *)
(* attempt, termination, cleared cookies and registration.                 *)
(***************************************************************************)
\* What verify-otp tells the caller: status and the error and message fields.
Reason(resp) == <<resp.statusCode, resp.error, resp.message>>

\* The answer to a wrong code that the provider rejects.
WrongCodeReasons ==
    {Reason(verifyOtp([phoneNumber |-> Str(phone_number), otp |-> Str(NeverIssued),
                       session |-> Str(<<"s">>)],
                      [NoRespondResult EXCEPT !.kind = k, !.message = m]).response) :
        k \in {"NotAuthorizedException", "CodeMismatchException"}, m \in RawMessages}

\* C31: an answer submitted on an expired session is answered as an
\* authentication failure (401) whose reason differs from the reason given
\* for a wrong code.
C31_ExpiredSessionHasOwnReason ==
    (httpRequest.op = "verify-otp" /\ providerError.message = SessionExpiredMessage) =>
       /\ httpResponse.statusCode = 401
       /\ Reason(httpResponse) \notin WrongCodeReasons

\* The age of the cached key set at the time of the last request.
CacheAge(cache, nowMs) == nowMs - cache.time

Warm(cache, nowMs) == cache.present /\ CacheAge(cache, nowMs) < JWKS_CACHE_DURATION

\* The last request carried a token, so it went on to verification.
Verified == authzResult.outcome # "none" /\ ~Falsy(ExtractedToken[authzRequest])

\* An invocation suspends in its fetch in this step.
Suspends(v) == inFlight[v].phase = "idle" /\ AtAxiosGet(v)'

\* fetchJwks returns the cached key set to an invocation in this step.
ServesCache(v) == inFlight[v].phase = "idle" /\ AtFetchJwks(v)'

\* The fetch of a suspended invocation answers or fails in this step.
Resumed(v) == AtAxiosGet(v) /\ AtFetchJwks(v)'

\* An invocation checks its token in this step.
Validates(v) == AtFetchJwks(v) /\ AtValidateJwt(v)'

\* An invocation that carried a token returns in this step.
Returns(v) == AtValidateJwt(v) /\ inFlight'[v].phase = "idle"

\* The slot as the fetch of invocation v writes it.
FetchedSlot(v) == [present |-> TRUE, keys |-> providerKeys, time |-> inFlight[v].startMs]

\* The invocation of a slot holds a key set that fetchJwks returned from the
\* cache.
HoldsCachedKeys(v) ==
    (AtFetchJwks(v) \/ AtValidateJwt(v)) /\ ~inFlight[v].jwks.fetched

\* C32: the key-set cache is empty until the first verification, and only a
\* fetch that answered changes it.  A verification that finds the cache
\* younger than the TTL is given the cached key set, makes no fetch and
\* leaves the slot alone; one that finds it empty or at the TTL suspends in a
\* fetch, and when the fetch answers the slot holds the provider's key set
\* and the time the verification read before the fetch.  So a key set that
\* fetchJwks returns from the cache was fetched less than one hour before
\* the clock value fetchJwks read.
C32_CacheStep ==
    [][/\ ServesCache(1) =>
             /\ Warm(jwksCache, NowMs(now))
             /\ inFlight'[1].jwks = [threw |-> FALSE, fetched |-> FALSE,
                                     keys |-> jwksCache.keys]
             /\ jwksCache' = jwksCache
       /\ Suspends(1) =>
             /\ ~Warm(jwksCache, NowMs(now))
             /\ jwksCache' = jwksCache
       /\ Resumed(1) =>
             /\ inFlight'[1].jwks.fetched
             /\ IF inFlight'[1].jwks.threw
                THEN jwksCache' = jwksCache
                ELSE jwksCache' = FetchedSlot(1)
       /\ Returns(1) =>
             authzResult'.fetches = IF inFlight[1].jwks.fetched THEN 1 ELSE 0
       /\ jwksCache' # jwksCache => Resumed(1)]_vars

C32_CacheWithinTtl ==
    /\ jwksCache.present => jwksCache.time <= NowMs(now)
    /\ HoldsCachedKeys(1) =>
          /\ jwksCache.present
          /\ inFlight[1].jwks.keys = jwksCache.keys
          /\ CacheAge(jwksCache, inFlight[1].startMs) < JWKS_CACHE_DURATION
    /\ (Verified /\ authzResult.fetches = 0) => jwksCache.present
    /\ (Verified /\ authzResult.fetches = 1
          /\ authzResult.logged # "JWKS fetch failed") =>
          /\ jwksCache.present
          /\ jwksCache.time <= authzResult.nowMs

C32_KeySetCacheTtl == C32_CacheStep /\ []C32_CacheWithinTtl

\* A verification has refetched exactly when the age of the cache reached the
\* TTL: the slot was filled at the start and is refilled one hour later.
C32_Witness ==
    /\ Verified
    /\ authzResult.fetches = 1
    /\ authzResult.nowMs = NowMs(0) + JWKS_CACHE_DURATION
    /\ jwksCache.time = authzResult.nowMs

\* A verification 40 minutes after the fetch has used the cache.
C32_ServedFromCache ==
    /\ Verified
    /\ authzResult.fetches = 0
    /\ CacheAge(jwksCache, authzResult.nowMs) = 2 * TickMs

\* A verification was given the cached key set 40 minutes after the fetch
\* and checked its token against it when the clock had reached the TTL.
C32_ValidatedAtTtl ==
    /\ Verified
    /\ authzResult.fetches = 0
    /\ authzResult.outcome = "Allow"
    /\ CacheAge(jwksCache, authzResult.nowMs) = JWKS_CACHE_DURATION

\* The token of the last request, decoded.
RequestToken == jwtDecode(ExtractedToken[authzRequest].text)

\* C33: verification fails on an unknown key id only after the key set was
\* fetched during that very request (one refetch when the cache was warm) and
\* the fetched set lacks the key id too; so a token signed with a key rotated
\* in after the cache was filled is accepted within the TTL.
C33_RefetchOnUnknownKeyId ==
    /\ (Verified /\ authzResult.logged = "Public key not found in JWKS") =>
          /\ authzResult.fetches = 1
          /\ jwksCache.time <= authzResult.nowMs
          /\ FindJwk(jwksCache.keys, RequestToken.kid) = {}
    /\ Verified => authzResult.fetches <= 1

(***************************************************************************)
(* The authorizer with overlapping invocations.  fetchJwks suspends at     *)
(* `await axios.get(JWKS_URL)` after it has read the clock and found the   *)
(* cache cold or stale; other invocations run while it is suspended.  On   *)
(* resumption it assigns jwksCache and jwksCacheTime without suspending in *)
(* between, and the handler goes on with the key set it fetched.           *)
(***************************************************************************)
\* Requests of the overlapping invocations.
ConcurrentRequests ==
    {[NoHeaders EXCEPT !.present = TRUE]}
    \cup {[NoHeaders EXCEPT !.present = TRUE, !.Cookie = Str(idTokenPrefix \o <<t>>)] :
             t \in {"tGood", "tRotated"}}

VerifyWithoutFetch(v) == VerifyWithoutFetchOf(v, ConcurrentRequests)

FetchSuspends(v) == FetchSuspendsOf(v, ConcurrentRequests)

ConcurrentNext ==
    \/ \E v \in 1..NumVerifiers : VerifyWithoutFetch(v)
    \/ \E v \in 1..NumVerifiers : FetchSuspends(v)
    \/ \E v \in 1..NumVerifiers : FetchResumes(v)
    \/ \E v \in 1..NumVerifiers : FetchRejects(v)
    \/ \E v \in 1..NumVerifiers : ValidateJwtResumes(v)
    \/ \E v \in 1..NumVerifiers : HandlerResumes(v)
    \/ Tick
    \/ RotateKeys

SpecConcurrent == Init /\ [][ConcurrentNext]_vars

\* The key sets the provider publishes over time.
PublishedKeySets == {{Key1}, {Key1, Key2}}

C34_SlotStep ==
    [][\A v \in 1..NumVerifiers :
          /\ (Resumed(v) /\ ~inFlight'[v].jwks.threw) =>
                /\ jwksCache' = FetchedSlot(v)
                /\ inFlight'[v].jwks.keys = providerKeys
          /\ (Validates(v) /\ inFlight[v].jwks.fetched /\ ~inFlight[v].jwks.threw) =>
                /\ inFlight[v].jwks.keys \in PublishedKeySets
                /\ inFlight'[v].verdict =
                      validateJwt(ExtractedToken[inFlight[v].headers].text,
                                  inFlight[v].jwks.keys, NowMs(now))
          /\ (Returns(v) /\ inFlight[v].jwks.fetched /\ ~inFlight[v].jwks.threw) =>
                /\ authzResult'.fetches = 1
                /\ authzResult'.outcome = "Allow" <=> inFlight[v].verdict = "ok"]_vars
C34_SlotChangesOnlyOnResume ==
    [][jwksCache' # jwksCache =>
          \E v \in 1..NumVerifiers : Resumed(v) /\ jwksCache' = FetchedSlot(v)]_vars
\* C34: overlapping verifications that find the cache stale each fetch; each
\* one that resumes validates against the whole key set its own fetch
\* returned, and the slot then holds that key set together with the time
\* that same invocation read: the slot never pairs the key set of one fetch
\* with the timestamp of another, and the last fetch to resume wins.
C34_LastWriterWins == C34_SlotStep /\ C34_SlotChangesOnlyOnResume

\* Two invocations found the cache stale and both fetched; the one that began
\* first resumed last, and the slot holds its key set and its timestamp.
C34_Witness ==
    /\ jwksCache.present
    /\ jwksCache.keys = {Key1, Key2}
    /\ jwksCache.time = NowMs(1)
    /\ authzResult.fetches = 1
    /\ authzResult.nowMs = NowMs(3)
    /\ \A v \in 1..NumVerifiers : inFlight[v].phase = "idle"

\* The create invocations of the attempt in the order they were started; the
\* first one sent the first message of the attempt.
FirstSentCode == creations[1].published[1].Code
\* The invocation of the first round that ran to its end: the provider
\* records the metadata it responded with.
FirstRecorded == CHOOSE i \in 1..Len(creations) :
                    creations[i].round = 0 /\ creations[i].status = "returned"
Accepted == pc = "success" /\ Len(session) > 1

\* C35 as stated: every create invocation on a non-empty round history issues
\* the metadata of the most recent round, all invocations of the attempt
\* issue one code, and a code accepted in a later round is the code of the
\* first message sent in the attempt.
C35_LaterRoundsAcceptFirstSentCode ==
    /\ \A i \in 1..Len(creations) :
          creations[i].round > 0 =>
             creations[i].otp = session[creations[i].round].challengeMetadata
    /\ \A i \in 1..Len(creations) : creations[i].otp = FirstSentCode
    /\ Accepted => lastAnswer = FirstSentCode

\* C35 as amended: every create invocation on a non-empty round history
\* issues the metadata of the most recent round, so every round shares the
\* code of the first-round invocation that ran to its end, and a code
\* accepted in a later round is the code that invocation sent; a first-round
\* invocation the provider gave up on drew and sent a code of its own.
C35_LaterRoundsAcceptFirstRecordedCode ==
    IF Len(session) = 0
    THEN \A i \in 1..Len(creations) : creations[i].round = 0
    ELSE /\ \A i \in 1..Len(creations) :
               creations[i].round > 0 =>
                  /\ creations[i].otp = session[creations[i].round].challengeMetadata
                  /\ creations[i].otp = creations[FirstRecorded].otp
                  /\ creations[i].published[1].Code = creations[FirstRecorded].otp
         /\ \A k \in 1..Len(session) :
               session[k].challengeMetadata = creations[FirstRecorded].otp
         /\ Accepted => lastAnswer = creations[FirstRecorded].published[1].Code

\* A code is accepted in the third round of an attempt whose first create
\* invocation was given up on after it had sent another code.
C35_Witness ==
    /\ Accepted
    /\ Len(session) = 3
    /\ creations[1].status = "timedOut"
    /\ FirstRecorded = 2
    /\ FirstSentCode # lastAnswer
    /\ creations[Len(creations)].round = 2

\* Round histories of every length up to MaxHistory and every pattern of
\* challenge results.
RoundHistories ==
    UNION {[1..n -> [challengeName     : {"CUSTOM_CHALLENGE"},
                     challengeResult   : BOOLEAN,
                     challengeMetadata : {generateOTP(0)}]] : n \in 0..MaxHistory}
ChallengeIssued(r) ==
    ~r.issueTokens /\ ~r.failAuthentication /\ r.challengeName = "CUSTOM_CHALLENGE"
TokensIssued(r) == r.issueTokens /\ ~r.failAuthentication
AuthenticationFails(r) == ~r.issueTokens /\ r.failAuthentication
ExactlyOneOutcome(r) ==
    Cardinality({o \in {"challenge", "tokens", "fails"} :
                    \/ o = "challenge" /\ ChallengeIssued(r)
                    \/ o = "tokens" /\ TokensIssued(r)
                    \/ o = "fails" /\ AuthenticationFails(r)}) = 1

\* C36: every output of the define trigger, for every round history, is
\* exactly one of: a challenge is issued (no tokens, no failure, challenge
\* name CUSTOM_CHALLENGE), tokens are issued (no failure), or authentication
\* fails (no tokens); issueTokens and failAuthentication are never both set.
C36_ExactlyOneOutcome ==
    /\ \A sess \in RoundHistories :
          /\ ExactlyOneOutcome(DefineAuthChallenge(sess))
          /\ ~(DefineAuthChallenge(sess).issueTokens
               /\ DefineAuthChallenge(sess).failAuthentication)
    /\ pc \in {"create", "success", "failure"} =>
          /\ ExactlyOneOutcome(response)
          /\ pc = "create" <=> ChallengeIssued(response)
          /\ pc = "success" <=> TokensIssued(response)
          /\ pc = "failure" <=> AuthenticationFails(response)

\* The define trigger has failed an attempt after three incorrect rounds.
C36_Witness ==
    /\ pc = "failure"
    /\ Len(session) = 3
    /\ AuthenticationFails(response)
    /\ ~TokensIssued(response)
    /\ ~ChallengeIssued(response)

(***************************************************************************)
(* The custom-auth flow with progress.  A trigger the provider invokes     *)
(* runs to its end: the define and verify triggers make no call, and the   *)
(* delivery call of the create trigger settles.  The client keeps          *)
(* answering the open challenge, and the provider records each round.      *)
(***************************************************************************)
FlowFairness ==
    /\ WF_vars(DefineStep)
    /\ WF_vars(CreateStart)
    /\ WF_vars(SnsPublishSucceeds \/ SnsPublishFails)
    /\ WF_vars(VerifyStep)
    /\ WF_vars(RecordRound)

SpecFlowFair == Spec /\ FlowFairness

\* Answers submitted in the attempt, and messages its create invocations
\* handed to the delivery service.
Submissions == Len(session) + (IF pc = "verified" THEN 1 ELSE 0)
RECURSIVE DeliveriesIn(_)
DeliveriesIn(cs) ==
    IF cs = <<>> THEN 0 ELSE Len(Head(cs).published) + DeliveriesIn(Tail(cs))
Finished == pc \in {"success", "failure"}
FreshAttempt == pc = "define" /\ Len(session) = 0

Terminates == FreshAttempt ~> Finished

\* The bounds C37 states: three submissions, three create invocations and
\* three delivery attempts per attempt.
ThreeOfEach ==
    /\ Submissions <= 3
    /\ challengesIssued <= 3
    /\ Len(creations) <= 3
    /\ DeliveriesIn(creations) <= 3

\* C37 as stated: every attempt reaches success or failure after at most
\* three submissions, with at most three challenge creations and at most
\* three delivery attempts.
C37_ThreeCreationsAndDeliveries == Terminates /\ []ThreeOfEach

\* The bounds of the code: three submissions and three issued challenges;
\* every create invocation attempts one delivery, and the invocations exceed
\* the issued challenges by those the provider gave up on and repeated.
ThreeChallenges ==
    /\ Submissions <= 3
    /\ challengesIssued <= 3
    /\ Finished => Len(session) <= 3
    /\ (pc = "failure" /\ attempts > 0) => Len(session) = 3
    /\ Len(creations) <= challengesIssued + Retries
    /\ DeliveriesIn(creations) = Len(creations)
    /\ Cardinality({creations[i].round : i \in 1..Len(creations)}) <= 3

\* C37 as amended: every attempt whose challenges keep being answered
\* reaches success or failure after at most three submissions; at most three
\* challenges are issued, and each create invocation attempts one delivery,
\* so creations and deliveries are three plus the invocations the provider
\* repeated.
C37_ThreeChallengesIssued == Terminates /\ []ThreeChallenges

\* An attempt failed after three submissions, four create invocations and
\* four delivery attempts.
C37_Witness ==
    /\ pc = "failure"
    /\ Submissions = 3
    /\ challengesIssued = 3
    /\ Len(creations) = 4
    /\ DeliveriesIn(creations) = 4

FetchFailed(result) == result.logged = "JWKS fetch failed"

C38_FailedFetchStep ==
    [][/\ Resumed(1) =>
             \/ /\ ~inFlight'[1].jwks.threw
                /\ jwksCache' = FetchedSlot(1)
             \/ /\ inFlight'[1].jwks.threw
                /\ jwksCache' = jwksCache
       /\ (Validates(1) \/ Returns(1)) => jwksCache' = jwksCache
       /\ (Returns(1) /\ inFlight[1].jwks.threw) =>
             /\ FetchFailed(authzResult')
             /\ authzResult'.outcome = "Unauthorized"
             /\ authzResult'.principalId = ""
             /\ authzResult'.context = NoContext]_vars

C38_FetchesAgainStep ==
    [][(FetchFailed(authzResult) /\ ~Falsy(ExtractedToken[authzRequest'])
          /\ <<authzRequest, authzResult>>' # <<authzRequest, authzResult>>) =>
          Suspends(1)]_vars

\* C38: when the fetch of the key set fails, the slot (key set and
\* timestamp) is left as it was and the request is denied, also when the
\* slot holds a stale key set; the slot is still cold or stale afterwards,
\* and the next verification suspends in a fetch again.
C38_FailedFetchDenies ==
    /\ C38_FailedFetchStep
    /\ C38_FetchesAgainStep
    /\ [](FetchFailed(authzResult) =>
             /\ authzResult.outcome = "Unauthorized"
             /\ authzResult.fetches = 1
             /\ ~Warm(jwksCache, NowMs(now)))

\* A request with a valid token is denied because the fetch failed while the
\* slot holds a stale key set that has the token's key.
C38_Witness ==
    /\ FetchFailed(authzResult)
    /\ Verified
    /\ jwksCache.present
    /\ CacheAge(jwksCache, authzResult.nowMs) >= JWKS_CACHE_DURATION
    /\ validateJwt(ExtractedToken[authzRequest].text, jwksCache.keys,
                   authzResult.nowMs) = "ok"

(***************************************************************************)
(* Requests after logout: the browser holds the cookies logout rendered,   *)
(* or still the cookies of the session.                                    *)
(***************************************************************************)
ClearedCookieHeaders ==
    ClearedCookies
    \cup {<<>>,
          idTokenPrefix \o <<"tGood", ";", " ">> \o refreshTokenPrefix \o <<"rT">>}

ClearedAuthorize == VerifyWithoutFetchOf(1, ClearedRequests)

ClearedAuthorizeSuspends == FetchSuspendsOf(1, ClearedRequests)

ClearedRefresh == RefreshTokenOf(ClearedCookieHeaders)

ClearedGetCurrentUser == GetCurrentUserOf(ClearedCookieHeaders)

ClearedLogout == LogoutOf(ClearedCookieHeaders)

ClearedNext ==
    \/ ClearedAuthorize
    \/ ClearedAuthorizeSuspends
    \/ FetchResumes(1)
    \/ FetchRejects(1)
    \/ ValidateJwtResumes(1)
    \/ HandlerResumes(1)
    \/ ClearedRefresh
    \/ RefreshAnswers(RefreshResults)
    \/ ClearedGetCurrentUser
    \/ ClearedLogout
    \/ Tick

SpecCleared == Init /\ [][ClearedNext]_vars

ClearedCookieSent == httpRequest.cookies \in ClearedCookies
ClearedCookieAuthorized ==
    authzRequest.Cookie.present /\ authzRequest.Cookie.text \in ClearedCookies

\* C39: a cookie header that carries idToken and refreshToken with empty
\* values, as logout renders them, carries no credential: the authorizer
\* answers as it does for the same request without cookies (it denies when
\* there is no bearer token), and refresh and get-current-user answer 401
\* without a call to the provider.
C39_ClearedCookieNeverAuthenticates ==
    /\ ClearedCookieAuthorized =>
          /\ Falsy(extractTokenFromCookies([authzRequest EXCEPT !.Authorization = Absent]))
          /\ authzResult.outcome =
                authorizerHandler([authzRequest EXCEPT !.Cookie = Absent], jwksCache,
                                  authzResult.nowMs, "ok", providerKeys).outcome
             \/ authzResult.logged = "JWKS fetch failed"
          /\ ~authzRequest.Authorization.present =>
                /\ authzResult.outcome = "Unauthorized"
                /\ authzResult.logged = "No authentication token provided"
                /\ authzResult.fetches = 0
    /\ (ClearedCookieSent /\ httpRequest.op = "refresh") =>
          /\ httpResponse.statusCode = 401
          /\ httpResponse.error = "No refresh token provided"
          /\ providerCalls = <<>>
          /\ httpResponse.setCookie = <<>>
    /\ (ClearedCookieSent /\ httpRequest.op = "me") =>
          /\ httpResponse.statusCode = 401
          /\ httpResponse.error = "Not authenticated"
          /\ providerCalls = <<>>

\* After the authorizer has denied a request with cleared cookies, refresh
\* is asked with the same cleared cookies.
C39_Witness ==
    /\ ClearedCookieAuthorized
    /\ ~authzRequest.Authorization.present
    /\ authzResult.outcome = "Unauthorized"
    /\ ClearedCookieSent
    /\ httpRequest.op = "refresh"
    /\ httpResponse.statusCode = 401

(***************************************************************************)
(* Registration against the provider's accounts.  SignUp creates the       *)
(* account of a phone number that has none and throws                      *)
(* UsernameExistsException for one that has; InitiateAuth opens an attempt *)
(* for an account or throws.  Either call may fail for a reason of the     *)
(* provider's own.                                                         *)
(***************************************************************************)
RegisterOutcomes ==
    {ProviderOk}
    \cup {ProviderError(n, m) :
             n \in {"UsernameExistsException", "UserNotFoundException",
                    "NotAuthorizedException", "InternalErrorException"},
             m \in RawMessages}

AccountRegister == RegisterUserOf(RegisterPhones)

AccountSendOtp == SendOtpOf(RegisterPhones)

RegisterNext ==
    \/ AccountRegister
    \/ AccountSendOtp
    \/ SignUpAnswers(RegisterOutcomes)
    \/ InitiateAuthThrows(RegisterOutcomes)
    \/ ProviderOpensAttempt
    \/ DefineStep
    \/ CreateStart
    \/ SnsPublishSucceeds
    \/ SnsPublishFails
    \/ InitiateAuthAnswers
    \/ Tick

SpecRegister == Init /\ [][RegisterNext]_vars

\* SignUp of a register request is answered in this step.
SignUpAnswered ==
    /\ Suspended
    /\ httpRequest.op = "register"
    /\ providerCalls = <<"SignUp">>
    /\ <<httpResponse, providerCalls>>' # <<httpResponse, providerCalls>>

InitiationFailed ==
    /\ httpRequest.op = "register"
    /\ providerCalls = <<"SignUp", "InitiateAuth">>
    /\ providerError # NoProviderError

C40_AccountStaysCreated ==
    /\ InitiationFailed =>
          /\ httpResponse.statusCode = 500
          /\ ~httpResponse.session
          /\ Username \in accounts
    /\ (httpRequest.op = "register" /\ providerCalls = <<"SignUp", "InitiateAuth">>) =>
          Username \in accounts

C40_RepeatStep ==
    [][/\ SignUpAnswered =>
             IF Username \in accounts
             THEN /\ httpResponse'.statusCode = 409
                  /\ ~httpResponse'.session
                  /\ providerCalls' = <<"SignUp">>
                  /\ accounts' = accounts
             ELSE \/ /\ accounts' = accounts \cup {Username}
                     /\ providerCalls' = <<"SignUp", "InitiateAuth">>
                     /\ httpResponse' = NoHttpResponse
                  \/ /\ accounts' = accounts
                     /\ providerCalls' = <<"SignUp">>
                     /\ httpResponse'.statusCode = 500
       /\ (httpRequest'.op = "register" /\ httpResponse'.session) =>
             providerCalls' = <<"SignUp", "InitiateAuth">>
       /\ accounts \subseteq accounts']_vars

\* C40: registration is not atomic: SignUp creates the account before
\* InitiateAuth is sent; when InitiateAuth then fails, register answers 500
\* and the account stays created.  SignUp of every later register for that
\* phone number is answered with username-exists, so that register is
\* answered 409 after SignUp alone, and none returns an OTP session.
C40_RegistrationNotAtomic == []C40_AccountStaysCreated /\ C40_RepeatStep

\* Register is answered 409 for a phone number although no attempt was ever
\* opened: its account is left from a registration whose initiation failed.
C40_Witness ==
    /\ httpRequest.op = "register"
    /\ httpResponse.statusCode = 409
    /\ httpRequest.phoneNumber.text \in accounts
    /\ attempts = 0
====
